---- MODULE Spec2Model ----
(***************************************************************************)
(* LANCast stream lifecycle orchestrator (sadopc/lan-movie).               *)
(*                                                                         *)
(* The module models, from the JavaScript sources:                         *)
(*   - AppState            (src/server/state.js)                           *)
(*   - the WebSocket layer (src/server/websocket.js)                       *)
(*   - the RTMP handlers   (src/server/rtmp.js)                            *)
(*   - the FFmpeg supervisor (src/server/transcoder.js) and its wiring     *)
(*     (src/server/index.js)                                               *)
(*                                                                         *)
(* Node.js runs every handler to completion on one thread, so each handler *)
(* is one atomic action.  The specifications share the variables:          *)
(*   SpecStream   AppState's stream methods called directly                *)
(*   SpecViewers  AppState's viewer methods called directly                *)
(*   SpecWs       the WebSocket server and the viewer registry             *)
(*   Spec         the publish path: RTMP events, AppState, the transcoder  *)
(***************************************************************************)
EXTENDS Integers, Sequences, FiniteSets, TLC

(***************************************************************************)
(* Bounds of the model.                                                    *)
(***************************************************************************)
\* config.limits.maxViewers, shrunk from its default of 10
MaxViewers == 2
\* number of WebSocket objects that may exist at the same time
NumChannels == 3
\* number of addViewer calls that are counted
MaxCalls == 4
\* largest value of the logical clock behind new Date() / Date.now()
MaxTime == 1
\* number of RTMP sessions that may exist at the same time
NumSessions == 2
\* number of FFmpeg child processes that may exist at the same time
NumProcs == 2
\* heartbeat ticks counted for one socket since its last sign of life
MaxTicks == 2
\* number of listeners AppState.on may hold, over both events
MaxListeners == 3
\* largest value of the status client's reconnectAttempt that is told apart
MaxAttempts == 2

(***************************************************************************)
(* Encodings of JavaScript values.                                         *)
(***************************************************************************)
\* JS undefined in a string-typed position
Undefined == "undefined"
\* JS undefined in a number-typed position (bitrate, startTime, duration)
NoNum == -1

Channels == 1 .. NumChannels
UUIDs == 1 .. (NumChannels + 1)
NoId == 0

Addrs == {"10.0.0.5", "10.0.0.6"}
KnownResolutions == {"1280x720", "1920x1080"}
\* values a caller may pass as metadata.resolution
ResolutionArgs == KnownResolutions \cup {"unknown", Undefined}
\* values a caller may pass as metadata.bitrate
BitrateArgs == {NoNum, 0, 2500, 5000}

\* JS truthiness of a string-or-undefined value
StrTruthy(s) == s # Undefined /\ s # ""
\* JS truthiness of a number-or-undefined value
NumTruthy(n) == n # NoNum /\ n # 0

VARIABLES
  stream,      \* AppState.stream
  viewers,     \* AppState.viewers : Map id -> ViewerSession
  now,         \* logical clock read by new Date() / Date.now()
  clients,     \* the WebSocket objects: readyState, isAlive, handlers
  sessions,    \* the RTMP sessions nms.getSession knows, and their timers
  ffmpegProcess,        \* transcoder.js: let ffmpegProcess
  isStoppingTranscoder, \* transcoder.js: let isStoppingTranscoder
  procs,       \* the FFmpeg child processes, their handlers and kill timers
  hlsFiles,    \* whether the HLS output directory holds files
  calls,       \* SpecViewers: addViewer calls before the first removal
  admitted,    \* SpecViewers: those of them that returned a session
  removed,     \* SpecViewers: whether any session was ever deleted
  listeners,   \* AppState._listeners : event -> array of callbacks
  client,      \* public/js/status.js: one viewer page's status client
  last,        \* what the handler that ran last did             (history)
  prev         \* op, pre-status and notifications of the handler before it

appVars == <<stream, viewers>>
wsVars == <<clients>>
rtVars == <<sessions, ffmpegProcess, isStoppingTranscoder, procs, hlsFiles>>
histVars == <<calls, admitted, removed, last, prev>>
vars == <<stream, viewers, now, clients, sessions, ffmpegProcess,
          isStoppingTranscoder, procs, hlsFiles, calls, admitted, removed,
          listeners, client, last, prev>>

(***************************************************************************)
(* AppState  (src/server/state.js)                                         *)
(***************************************************************************)
\* { id: 'live', status: 'offline' }: every live-only field is undefined
OfflineStream ==
  [status |-> "offline", publisherIP |-> Undefined, resolution |-> Undefined,
   bitrate |-> NoNum, startTime |-> NoNum]

\* getViewerCount(): this.viewers.size
GetViewerCount(v) == Cardinality(DOMAIN v)

\* getStreamInfo(): the snapshot that is broadcast; streamInfo only when live
GetStreamInfo(s, v, t) ==
  IF s.status = "live"
  THEN [live |-> TRUE, viewerCount |-> GetViewerCount(v),
        resolution |-> s.resolution, bitrate |-> s.bitrate,
        startTime |-> s.startTime, duration |-> t - s.startTime]
  ELSE [live |-> FALSE, viewerCount |-> GetViewerCount(v),
        resolution |-> Undefined, bitrate |-> NoNum,
        startTime |-> NoNum, duration |-> NoNum]

\* _emit(event, data): one notification, carrying the snapshot of that moment
Emitted(event, s, v, t) == [event |-> event, info |-> GetStreamInfo(s, v, t)]

\* canStream() that lets a second publisher in
CanStream_Always(s) == s.status \in {"offline", "live"}

\* canStream(): true iff no stream is active
CanStream(s) == s.status = "offline"

\* the state of an AppState instance, as passed to and returned by its methods
App == [stream |-> stream, viewers |-> viewers]

\* what a method hands back: the new state, the notifications it emitted in
\* order, "ok" / "throw" / "null", and the id of the session it created
Outcome(s, v, emits, res, sid) ==
  [stream |-> s, viewers |-> v, emits |-> emits, res |-> res, sid |-> sid]

\* the metadata argument of startStream / updateStreamMetadata
Metadata(ip, res, br) == [publisherIP |-> ip, resolution |-> res, bitrate |-> br]
NoMetadata == Metadata(Undefined, Undefined, NoNum)

\* startStream without its re-check: a second publisher overwrites the first
StartStream_NoRecheck(a, t, md) ==
  LET s2 == [status |-> "live",
             publisherIP |-> md.publisherIP,
             resolution |-> IF StrTruthy(md.resolution)
                            THEN md.resolution ELSE "unknown",
             bitrate |-> IF NumTruthy(md.bitrate) THEN md.bitrate ELSE 0,
             startTime |-> t]
  IN Outcome(s2, a.viewers,
             <<Emitted("streamChange", s2, a.viewers, t)>>, "ok", NoId)

\* startStream(metadata)
StartStream(a, t, md) ==
  IF a.stream.status = "live"
  THEN Outcome(a.stream, a.viewers, <<>>, "throw", NoId)
  ELSE LET s2 == [status |-> "live",
                  publisherIP |-> md.publisherIP,
                  resolution |-> IF StrTruthy(md.resolution)
                                 THEN md.resolution ELSE "unknown",
                  bitrate |-> IF NumTruthy(md.bitrate) THEN md.bitrate ELSE 0,
                  startTime |-> t]
       IN Outcome(s2, a.viewers,
                  <<Emitted("streamChange", s2, a.viewers, t)>>, "ok", NoId)

\* stopStream that only flips the status and leaves the metadata in place
StopStream_KeepsMetadata(a, t) ==
  LET s2 == [a.stream EXCEPT !.status = "offline"]
  IN Outcome(s2, a.viewers,
             <<Emitted("streamChange", s2, a.viewers, t)>>, "ok", NoId)

\* stopStream that returns early, without a notification, when already offline
StopStream_Guarded(a, t) ==
  IF a.stream.status = "offline"
  THEN Outcome(a.stream, a.viewers, <<>>, "ok", NoId)
  ELSE Outcome(OfflineStream, a.viewers,
               <<Emitted("streamChange", OfflineStream, a.viewers, t)>>,
               "ok", NoId)

\* stopStream()
StopStream(a, t) ==
  Outcome(OfflineStream, a.viewers,
          <<Emitted("streamChange", OfflineStream, a.viewers, t)>>, "ok", NoId)

\* the resolution test without its !== 'unknown' half
SetsResolution_NoSentinelCheck(md) == StrTruthy(md.resolution)

\* updateStreamMetadata: the resolution is assigned
SetsResolution(md) == StrTruthy(md.resolution) /\ md.resolution # "unknown"

\* updateStreamMetadata: the bitrate is assigned
SetsBitrate(md) == NumTruthy(md.bitrate) /\ md.bitrate > 0

\* updateStreamMetadata that notifies only when a stored value changed
UpdateStreamMetadata_EmitOnChange(a, t, md) ==
  IF a.stream.status # "live"
  THEN Outcome(a.stream, a.viewers, <<>>, "ok", NoId)
  ELSE LET s2 == [a.stream EXCEPT
                    !.resolution = IF SetsResolution(md) THEN md.resolution ELSE @,
                    !.bitrate = IF SetsBitrate(md) THEN md.bitrate ELSE @]
       IN Outcome(s2, a.viewers,
                  IF s2 # a.stream
                  THEN <<Emitted("streamChange", s2, a.viewers, t)>>
                  ELSE <<>>,
                  "ok", NoId)

\* updateStreamMetadata(metadata)
UpdateStreamMetadata(a, t, md) ==
  IF a.stream.status # "live"
  THEN Outcome(a.stream, a.viewers, <<>>, "ok", NoId)
  ELSE LET s2 == [a.stream EXCEPT
                    !.resolution = IF SetsResolution(md) THEN md.resolution ELSE @,
                    !.bitrate = IF SetsBitrate(md) THEN md.bitrate ELSE @]
           updated == SetsResolution(md) \/ SetsBitrate(md)
       IN Outcome(s2, a.viewers,
                  IF updated
                  THEN <<Emitted("streamChange", s2, a.viewers, t)>>
                  ELSE <<>>,
                  "ok", NoId)

\* the capacity test with > in place of >=
IsRoomFull_OffByOne(v) == Cardinality(DOMAIN v) > MaxViewers

\* addViewer: this.viewers.size >= this.config.limits.maxViewers
IsRoomFull(v) == Cardinality(DOMAIN v) >= MaxViewers

\* the ViewerSession object built by addViewer
NewSession(id, ws, t) ==
  [id |-> id, connectedAt |-> t, lastPing |-> t, quality |-> "1080p",
   websocket |-> ws]

\* Map.prototype.set
MapSet(m, k, x) == [y \in DOMAIN m \cup {k} |-> IF y = k THEN x ELSE m[y]]

\* Map.prototype.delete
MapDelete(m, k) == [y \in DOMAIN m \ {k} |-> m[y]]

\* addViewer that notifies before it checks the capacity
AddViewer_NotifiesWhenFull(a, t, ws, id) ==
  IF IsRoomFull(a.viewers)
  THEN Outcome(a.stream, a.viewers,
               <<Emitted("viewerChange", a.stream, a.viewers, t)>>, "null", NoId)
  ELSE LET session == NewSession(id, ws, t)
           v2 == MapSet(a.viewers, session.id, session)
       IN Outcome(a.stream, v2,
                  <<Emitted("viewerChange", a.stream, v2, t)>>, "ok", session.id)

\* addViewer(ws), with id the value crypto.randomUUID() returns
AddViewer(a, t, ws, id) ==
  IF IsRoomFull(a.viewers)
  THEN Outcome(a.stream, a.viewers, <<>>, "null", NoId)
  ELSE LET session == NewSession(id, ws, t)
           v2 == MapSet(a.viewers, session.id, session)
       IN Outcome(a.stream, v2,
                  <<Emitted("viewerChange", a.stream, v2, t)>>, "ok", session.id)

\* a removeViewer that notifies before it deletes
RemoveViewer_EmitsBeforeDelete(a, t, id) ==
  IF id \in DOMAIN a.viewers
  THEN Outcome(a.stream, MapDelete(a.viewers, id),
               <<Emitted("viewerChange", a.stream, a.viewers, t)>>, "ok", NoId)
  ELSE Outcome(a.stream, a.viewers, <<>>, "ok", NoId)

\* a removeViewer that notifies but leaves the session in the map
RemoveViewer_KeepsSession(a, t, id) ==
  IF id \in DOMAIN a.viewers
  THEN Outcome(a.stream, a.viewers,
               <<Emitted("viewerChange", a.stream, a.viewers, t)>>, "ok", NoId)
  ELSE Outcome(a.stream, a.viewers, <<>>, "ok", NoId)

\* a removeViewer without the has(id) test: Map.delete of an unknown key is
\* harmless, the notification goes out all the same
RemoveViewer_NoHasTest(a, t, id) ==
  LET v2 == MapDelete(a.viewers, id)
  IN Outcome(a.stream, v2, <<Emitted("viewerChange", a.stream, v2, t)>>, "ok", NoId)

\* removeViewer(id)
RemoveViewer(a, t, id) ==
  IF id \in DOMAIN a.viewers
  THEN LET v2 == MapDelete(a.viewers, id)
       IN Outcome(a.stream, v2,
                  <<Emitted("viewerChange", a.stream, v2, t)>>, "ok", NoId)
  ELSE Outcome(a.stream, a.viewers, <<>>, "ok", NoId)

(***************************************************************************)
(* The transcoder's state and the objects of its environment.              *)
(***************************************************************************)
Sessions == 1 .. NumSessions
Procs == 1 .. NumProcs
\* ffmpegProcess = null
NoProc == 0

\* a child process object that does not exist:
\*   state    "none", "running" or "failed" (the spawn failed; 'error' and
\*            'close' are emitted on the next tick)
\*   stopReg  stopTranscoder registered its once('close') handler on it
\*   timer    the killTimeout of that stopTranscoder call is pending
\*   killed   SIGKILL was sent to it
NoProcess ==
  [state |-> "none", stopReg |-> FALSE, timer |-> FALSE, killed |-> FALSE]

\* an RTMP session nms.getSession does not know:
\*   phase    "none", "accepted" (prePublish passed), "publishing"
\*            (postPublish ran) or "idle" (donePublish ran and the
\*            connection is still there)
\*   ip       socket.remoteAddress
\*   w, h, ab, vb  videoWidth, videoHeight, audioBitrate, videoBitrate; 0
\*            stands for a property that is not set
\*   refresh  the setTimeout of postPublish for this session id is pending
NoSession ==
  [phase |-> "none", ip |-> Undefined, w |-> 0, h |-> 0,
   ab |-> 0, vb |-> 0, refresh |-> FALSE]

\* the module-level state of transcoder.js, as its functions take and return it
Tc ==
  [ffmpegProcess |-> ffmpegProcess, isStopping |-> isStoppingTranscoder,
   procs |-> procs, hlsFiles |-> hlsFiles]

\* what a handler did besides its AppState calls: the number of
\* cleanupHlsFiles runs, the codes given to onCrashCallback, the signals sent
\* (as <<process, signal>>), the process spawned, startTranscoder's result,
\* (exit) the code of the 'close' event it handled, if it handled one, and
\* (mkdir) how the directory creation of ensureOutputDirs went, if it ran
NoFx ==
  [cleanups |-> 0, crashes |-> <<>>, signals |-> <<>>, spawned |-> NoProc,
   start |-> "none", exit |-> <<>>, mkdir |-> "none"]

(***************************************************************************)
(* History: what the last handler did.                                     *)
(***************************************************************************)
\* op: the handler; md, arg, path: its arguments; before, vbefore: the
\* stream and the registry when it began; res, sid: what it returned;
\* emits: the notifications it emitted; sends: the messages it sent, in
\* order; fx: what it did to the transcoder and the output directory
DidAll(op, md, arg, path, out, sends, fx) ==
  [op |-> op, md |-> md, arg |-> arg, path |-> path,
   before |-> stream, vbefore |-> viewers,
   res |-> out.res, sid |-> out.sid, emits |-> out.emits, sends |-> sends,
   fx |-> fx]

Did(op, md, arg, out, sends) == DidAll(op, md, arg, <<>>, out, sends, NoFx)

\* a direct AppState call: prev keeps the call before it
Remember(op, md, arg, out, sends) ==
  /\ last' = Did(op, md, arg, out, sends)
  /\ prev' = [op |-> last.op, pre |-> last.before.status,
              nemits |-> Len(last.emits)]
  /\ UNCHANGED <<listeners, client>>

\* a handler of the running server (WebSocket, RTMP, child process, timer)
RememberAll(op, md, arg, path, out, sends, fx) ==
  /\ last' = DidAll(op, md, arg, path, out, sends, fx)
  /\ UNCHANGED <<prev, listeners, client>>

\* the AppState part of a handler's effect
Commit(out) ==
  /\ stream' = out.stream
  /\ viewers' = out.viewers

\* the transcoder part of a handler's effect
CommitTc(tc) ==
  /\ ffmpegProcess' = tc.ffmpegProcess
  /\ isStoppingTranscoder' = tc.isStopping
  /\ procs' = tc.procs
  /\ hlsFiles' = tc.hlsFiles

(***************************************************************************)
(* The state after construction.                                           *)
(***************************************************************************)
\* the status client once init() has run on a visible page: connect() made
\* a socket, the visibilitychange listener is registered, the fallback
\* polling runs.
\*   ws                "null", or the readyState of the socket ws refers to
\*   reconnectAttempt  counted up to MaxAttempts
\*   reconnectTimer    a setTimeout of scheduleReconnect is pending
\*   fallbackPollTimer the setInterval of startFallbackPolling is set
\*   hidden            document.hidden
\*   listening         the visibilitychange listener is registered
\*   full              showRoomFull() has marked the viewer count
\*   rejected          history: a close with code 1008 was handled
LoadedClient ==
  [ws |-> "CONNECTING", reconnectAttempt |-> 0, reconnectTimer |-> FALSE,
   fallbackPollTimer |-> TRUE, hidden |-> FALSE, listening |-> TRUE,
   full |-> FALSE, rejected |-> FALSE]

\* the keys of this._listeners
Events == {"streamChange", "viewerChange"}

\* a WebSocket object that does not exist (yet, or any more)
NoClient ==
  [readyState |-> "NONE", isAlive |-> "undefined", sid |-> NoId,
   probe |-> FALSE, closeCode |-> 0, ticks |-> 0]

Init ==
  /\ stream = OfflineStream
  /\ viewers = <<>>
  /\ now = 0
  /\ clients = [c \in Channels |-> NoClient]
  /\ sessions = [x \in Sessions |-> NoSession]
  /\ ffmpegProcess = NoProc
  /\ isStoppingTranscoder = FALSE
  /\ procs = [q \in Procs |-> NoProcess]
  /\ hlsFiles = FALSE
  /\ calls = 0
  /\ admitted = 0
  /\ removed = FALSE
  /\ listeners = [e \in Events |-> <<>>]
  /\ client = LoadedClient
  /\ last = Did("init", NoMetadata, NoId,
                Outcome(OfflineStream, <<>>, <<>>, "ok", NoId), <<>>)
  /\ prev = [op |-> "init", pre |-> "offline", nemits |-> 0]

\* ids that a session or a handler closure still holds
HeldIds == DOMAIN viewers \cup {clients[c].sid : c \in Channels}

\* crypto.randomUUID(): a value no live object holds
FreshIds == UUIDs \ HeldIds

(***************************************************************************)
(* SpecStream: the stream methods of AppState called directly, as the unit *)
(* tests do, with any arguments and in any order.                          *)
(***************************************************************************)
\* time passes between two calls
Tick ==
  /\ now < MaxTime
  /\ now' = now + 1
  /\ UNCHANGED <<stream, viewers, clients, rtVars, histVars, listeners,
                 client>>

ApiStartStream ==
  \E ip \in Addrs, res \in ResolutionArgs, br \in BitrateArgs :
    LET md == Metadata(ip, res, br)
        out == StartStream(App, now, md)
    IN /\ Commit(out)
       /\ Remember("startStream", md, NoId, out, <<>>)
       /\ UNCHANGED <<now, clients, rtVars, calls, admitted, removed>>

ApiStopStream ==
  LET out == StopStream(App, now)
  IN /\ Commit(out)
     /\ Remember("stopStream", NoMetadata, NoId, out, <<>>)
     /\ UNCHANGED <<now, clients, rtVars, calls, admitted, removed>>

ApiUpdateStreamMetadata ==
  \E res \in ResolutionArgs, br \in BitrateArgs :
    LET md == Metadata(Undefined, res, br)
        out == UpdateStreamMetadata(App, now, md)
    IN /\ Commit(out)
       /\ Remember("updateStreamMetadata", md, NoId, out, <<>>)
       /\ UNCHANGED <<now, clients, rtVars, calls, admitted, removed>>

NextStream ==
  \/ Tick
  \/ ApiStartStream
  \/ ApiStopStream
  \/ ApiUpdateStreamMetadata

SpecStream == Init /\ [][NextStream]_vars

(***************************************************************************)
(* SpecViewers: the viewer methods of AppState called directly.  Calls and *)
(* admissions are counted for as long as nothing has been removed.         *)
(***************************************************************************)
\* WebSocket objects no held session refers to
UnusedWs == Channels \ {viewers[i].websocket : i \in DOMAIN viewers}

\* the caller passes a WebSocket object of its own, as createMockWebSocket()
\* and the transport do
ApiAddViewer ==
  /\ removed \/ calls < MaxCalls
  /\ UnusedWs # {}
  /\ \E id \in FreshIds :
       LET ws == CHOOSE c \in UnusedWs : \A d \in UnusedWs : c <= d
           out == AddViewer(App, now, ws, id)
       IN /\ Commit(out)
          /\ Remember("addViewer", NoMetadata, ws, out, <<>>)
          /\ calls' = IF removed THEN calls ELSE calls + 1
          /\ admitted' = IF ~removed /\ out.res = "ok"
                         THEN admitted + 1 ELSE admitted
          /\ UNCHANGED <<now, clients, rtVars, removed>>

ApiRemoveViewer ==
  \E id \in UUIDs :
    LET out == RemoveViewer(App, now, id)
    IN /\ Commit(out)
       /\ Remember("removeViewer", NoMetadata, id, out, <<>>)
       /\ removed' = (removed \/ id \in DOMAIN viewers)
       /\ UNCHANGED <<now, clients, rtVars, calls, admitted>>

NextViewers ==
  \/ ApiAddViewer
  \/ ApiRemoveViewer

SpecViewers == Init /\ [][NextViewers]_vars

(***************************************************************************)
(* The WebSocket layer  (src/server/websocket.js)                          *)
(*                                                                         *)
(* clients[c] is one WebSocket object:                                     *)
(*   readyState  "NONE" (no such object), "OPEN", or "CLOSING" (close or   *)
(*               terminate was called, the 'close' event is still to come) *)
(*   isAlive     the ws.isAlive property: "undefined", "true" or "false"   *)
(*   sid         session.id held by the pong and close handlers; NoId when *)
(*               handleConnection returned before registering them         *)
(*   probe       a ping was sent and has not been answered                 *)
(*   closeCode   the code given to ws.close, 0 when it was not called      *)
(*   ticks       history, not a property of the socket: the heartbeat      *)
(*               ticks that visited it since its last sign of life (its    *)
(*               connection or a pong), counted up to MaxTicks; the tick   *)
(*               that makes ticks = n + 1 comes n full intervals or more   *)
(*               after that sign of life, and less than n + 1              *)
(***************************************************************************)
\* ws.close(1008, 'Room full'): 1008 = Policy Violation
PolicyViolation == 1008

\* wss.clients: the transport adds a socket before it emits 'connection' and
\* drops it when the socket emits 'close'
WssClients(cl) == {c \in Channels : cl[c].readyState # "NONE"}

\* client.readyState === WebSocket.OPEN
IsOpen(cl, c) == cl[c].readyState = "OPEN"

\* the snapshot slot of a message that carries none
NoInfo ==
  [live |-> FALSE, viewerCount |-> 0, resolution |-> Undefined,
   bitrate |-> NoNum, startTime |-> NoNum, duration |-> NoNum]

\* { type: 'status', data: appState.getStreamInfo() }
StatusMsg(c, info) == [to |-> c, type |-> "status", code |-> "", info |-> info]

\* { type: 'error', data: { code, message } }
ErrorMsg(c, code) == [to |-> c, type |-> "error", code |-> code, info |-> NoInfo]

\* the members of a set of channels in ascending order
RECURSIVE InOrder(_)
InOrder(S) ==
  IF S = {} THEN <<>>
  ELSE LET c == CHOOSE x \in S : \A y \in S : x <= y
       IN <<c>> \o InOrder(S \ {c})

\* a broadcastStatus that does not test readyState
BroadcastStatus_IgnoresReadyState(cl, info) ==
  LET all == InOrder(WssClients(cl))
  IN [i \in 1 .. Len(all) |-> StatusMsg(all[i], info)]

\* broadcastStatus(wss, appState): one message to every open client
BroadcastStatus(cl, info) ==
  LET open == InOrder({c \in WssClients(cl) : IsOpen(cl, c)})
  IN [i \in 1 .. Len(open) |-> StatusMsg(open[i], info)]

\* the two listeners createWebSocketServer registers: every streamChange and
\* every viewerChange runs broadcastStatus
RECURSIVE Broadcasts(_, _)
Broadcasts(cl, emits) ==
  IF emits = <<>> THEN <<>>
  ELSE BroadcastStatus(cl, Head(emits).info) \o Broadcasts(cl, Tail(emits))

\* a sendStatus that sends nothing
SendStatus_Skipped(cl, c, info) == SubSeq(<<StatusMsg(c, info)>>, 1, 0)

\* sendStatus(ws, appState)
SendStatus(cl, c, info) == IF IsOpen(cl, c) THEN <<StatusMsg(c, info)>> ELSE <<>>

\* sendError called once ws.close() has been called: the socket is closing
SendError_AfterClose(cl, c, code) ==
  IF IsOpen([cl EXCEPT ![c].readyState = "CLOSING"], c)
  THEN <<ErrorMsg(c, code)>> ELSE <<>>

\* sendError(ws, code, message)
SendError(cl, c, code) == IF IsOpen(cl, c) THEN <<ErrorMsg(c, code)>> ELSE <<>>

\* the value crypto.randomUUID() returns to a connection: ids matter only by
\* being equal or not, so the least unused one stands for any unused one
NextId == CHOOSE id \in FreshIds : \A other \in FreshIds : id <= other

\* handleConnection(ws, req, appState) for a socket the transport just opened
HandleConnection(c) ==
  /\ clients[c].readyState = "NONE"
  /\ \E id \in {NextId} :
       LET opened == [clients EXCEPT ![c] = [NoClient EXCEPT !.readyState = "OPEN"]]
           out == AddViewer(App, now, c, id)
           info == GetStreamInfo(out.stream, out.viewers, now)
       IN /\ Commit(out)
          /\ IF out.res = "null"
             THEN /\ clients' = [opened EXCEPT ![c].readyState = "CLOSING",
                                               ![c].closeCode = PolicyViolation]
                  /\ RememberAll("connection", NoMetadata, c, <<>>, out,
                                 SendError(opened, c, "ROOM_FULL"), NoFx)
             ELSE /\ clients' = [opened EXCEPT ![c].isAlive = "true",
                                               ![c].sid = out.sid]
                  /\ RememberAll("connection", NoMetadata, c, <<>>, out,
                                 Broadcasts(opened, out.emits)
                                   \o SendStatus(opened, c, info), NoFx)
          /\ UNCHANGED <<now, rtVars, calls, admitted, removed>>

\* updateViewerPing(id)
UpdateViewerPing(v, id, t) ==
  IF id \in DOMAIN v THEN [v EXCEPT ![id].lastPing = t] ELSE v

\* ws.on('pong'): the client answered the probe
OnPong(c) ==
  /\ IsOpen(clients, c)
  /\ clients[c].probe
  /\ clients[c].sid # NoId
  /\ clients' = [clients EXCEPT ![c].isAlive = "true", ![c].probe = FALSE,
                                ![c].ticks = 0]
  /\ viewers' = UpdateViewerPing(viewers, clients[c].sid, now)
  /\ RememberAll("pong", NoMetadata, c, <<>>,
                 Outcome(stream, viewers', <<>>, "ok", NoId), <<>>, NoFx)
  /\ UNCHANGED <<stream, now, rtVars, calls, admitted, removed>>

\* the socket emits 'close' (the peer closed, the connection dropped, or a
\* close / terminate by the server completed): the transport drops it from
\* wss.clients and the handler of handleConnection, if registered, runs.
\* The history keeps the readyState the event found: "CLOSING" when the
\* server had called close or terminate, "OPEN" when the peer went first.
OnClose(c) ==
  /\ clients[c].readyState \in {"OPEN", "CLOSING"}
  /\ LET gone == [clients EXCEPT ![c] = NoClient]
         out == IF clients[c].sid # NoId
                THEN RemoveViewer(App, now, clients[c].sid)
                ELSE Outcome(stream, viewers, <<>>, "ok", NoId)
     IN /\ Commit(out)
        /\ clients' = gone
        /\ RememberAll("close", NoMetadata, c, <<clients[c].readyState>>, out,
                       Broadcasts(gone, out.emits), NoFx)
        /\ UNCHANGED <<now, rtVars, calls, admitted, removed>>

\* the tick counter of a socket after one more visit
Visited(w) == IF w.ticks < MaxTicks THEN w.ticks + 1 ELSE MaxTicks

\* a heartbeat that marks the socket before it tests the mark
HeartbeatVisit_MarksFirst(w) ==
  [w EXCEPT !.isAlive = "false", !.readyState = "CLOSING",
            !.ticks = Visited(w)]

\* a heartbeat that probes but leaves isAlive as it is
HeartbeatVisit_NeverMarks(w) ==
  IF w.isAlive = "false"
  THEN [w EXCEPT !.readyState = "CLOSING", !.ticks = Visited(w)]
  ELSE [w EXCEPT !.probe = (@ \/ w.readyState = "OPEN"),
                 !.ticks = Visited(w)]

\* the body of the heartbeat's forEach for one socket
HeartbeatVisit(w) ==
  IF w.isAlive = "false"
  THEN [w EXCEPT !.readyState = "CLOSING", !.ticks = Visited(w)]
  ELSE [w EXCEPT !.isAlive = "false",
                 !.probe = (@ \/ w.readyState = "OPEN"),
                 !.ticks = Visited(w)]

\* one tick of the interval startHeartbeat sets up
Heartbeat ==
  /\ WssClients(clients) # {}
  /\ clients' = [c \in Channels |->
                   IF c \in WssClients(clients)
                   THEN HeartbeatVisit(clients[c]) ELSE clients[c]]
  /\ RememberAll("heartbeat", NoMetadata, NoId, <<>>,
                 Outcome(stream, viewers, <<>>, "ok", NoId), <<>>, NoFx)
  /\ UNCHANGED <<stream, viewers, now, rtVars, calls, admitted, removed>>

NextWs ==
  \/ \E c \in Channels : HandleConnection(c)
  \/ \E c \in Channels : OnPong(c)
  \/ \E c \in Channels : OnClose(c)
  \/ Heartbeat

SpecWs == Init /\ [][NextWs]_vars

\* the same handlers with what the timer and the transport guarantee: the
\* interval of startHeartbeat keeps firing, and a socket the server closed or
\* terminated emits 'close'
ClosingCloses(c) == clients[c].readyState = "CLOSING" /\ OnClose(c)

SpecWsLive ==
  /\ Init /\ [][NextWs]_vars
  /\ WF_vars(Heartbeat)
  /\ \A c \in Channels : WF_vars(ClosingCloses(c))

(***************************************************************************)
(* SpecServer: the WebSocket server with a stream that changes under it.   *)
(* The stream methods are called as the RTMP handlers call them, with      *)
(* metadata extractMetadata can produce, and the two listeners of          *)
(* createWebSocketServer broadcast what they emit.                         *)
(***************************************************************************)
\* metadata of a session at postPublish and at the delayed refresh
PublishMetadata ==
  {Metadata("10.0.0.5", "unknown", 0), Metadata("10.0.0.5", "1280x720", 2500)}

\* appState.startStream(metadata) in the postPublish handler
SrvStartStream ==
  \E md \in PublishMetadata :
    LET out == StartStream(App, now, md)
    IN /\ Commit(out)
       /\ RememberAll("startStream", md, NoId, <<>>, out,
                      Broadcasts(clients, out.emits), NoFx)
       /\ UNCHANGED <<now, clients, rtVars, calls, admitted, removed>>

\* appState.stopStream() in the donePublish handler
SrvStopStream ==
  LET out == StopStream(App, now)
  IN /\ Commit(out)
     /\ RememberAll("stopStream", NoMetadata, NoId, <<>>, out,
                    Broadcasts(clients, out.emits), NoFx)
     /\ UNCHANGED <<now, clients, rtVars, calls, admitted, removed>>

\* appState.updateStreamMetadata(updatedMetadata) in the delayed refresh
SrvUpdateStreamMetadata ==
  \E md \in PublishMetadata :
    LET out == UpdateStreamMetadata(App, now, md)
    IN /\ Commit(out)
       /\ RememberAll("updateStreamMetadata", md, NoId, <<>>, out,
                      Broadcasts(clients, out.emits), NoFx)
       /\ UNCHANGED <<now, clients, rtVars, calls, admitted, removed>>

NextServer ==
  \/ \E c \in Channels : HandleConnection(c)
  \/ \E c \in Channels : OnPong(c)
  \/ \E c \in Channels : OnClose(c)
  \/ Heartbeat
  \/ SrvStartStream
  \/ SrvStopStream
  \/ SrvUpdateStreamMetadata

SpecServer == Init /\ [][NextServer]_vars

(***************************************************************************)
(* SpecListeners: AppState with listeners registered through on / off, as  *)
(* the unit tests register them.  A callback is the normalCallback or the  *)
(* errorCallback of the tests: the second throws whenever it is called.    *)
(* In this specification last.sends holds the callback invocations of the  *)
(* last call, in order.                                                    *)
(***************************************************************************)
Callbacks == {"normalCallback", "errorCallback"}

\* callback(data) throws
Throws(cb) == cb = "errorCallback"

\* one invocation callback(data)
Invocation(cb, data) == [callback |-> cb, data |-> data]

\* a loop over the listeners without the try / catch: the first callback that
\* throws ends the loop and its error leaves _emit
RECURSIVE EmitNoCatchFrom(_, _, _)
EmitNoCatchFrom(ls, i, data) ==
  IF i > Len(ls) THEN [calls |-> <<>>, thrown |-> FALSE, logged |-> 0]
  ELSE IF Throws(ls[i])
       THEN [calls |-> <<Invocation(ls[i], data)>>, thrown |-> TRUE, logged |-> 0]
       ELSE LET rest == EmitNoCatchFrom(ls, i + 1, data)
            IN [rest EXCEPT !.calls = <<Invocation(ls[i], data)>> \o @]

Emit_NoCatch(ls, data) == EmitNoCatchFrom(ls, 1, data)

\* for (const callback of listeners) try { callback(data) } catch { log }:
\* the invocations made, whether an error left the loop, the errors logged
RECURSIVE EmitFrom(_, _, _)
EmitFrom(ls, i, data) ==
  IF i > Len(ls) THEN [calls |-> <<>>, thrown |-> FALSE, logged |-> 0]
  ELSE LET rest == EmitFrom(ls, i + 1, data)
       IN [rest EXCEPT !.calls = <<Invocation(ls[i], data)>> \o @,
                       !.logged = @ + (IF Throws(ls[i]) THEN 1 ELSE 0)]

\* _emit(event, data) over the listeners of the event
Emit(ls, data) == EmitFrom(ls, 1, data)

\* the _emit calls of one method, in order; an error that leaves one of them
\* leaves the method, and what would follow is not run
RECURSIVE EmitAll(_, _)
EmitAll(lsn, emits) ==
  IF emits = <<>> THEN [calls |-> <<>>, thrown |-> FALSE, logged |-> 0]
  ELSE LET first == Emit(lsn[Head(emits).event], Head(emits).info)
           rest == EmitAll(lsn, Tail(emits))
       IN IF first.thrown THEN first
          ELSE [calls |-> first.calls \o rest.calls, thrown |-> rest.thrown,
                logged |-> first.logged + rest.logged]

\* a method of AppState called with the listeners in place: its assignments
\* are made before it emits, so they stay whatever the listeners do
CallWithListeners(op, md, arg, out) ==
  LET n == EmitAll(listeners, out.emits)
  IN /\ Commit(out)
     /\ last' = DidAll(op, md, arg, <<>>,
                       [out EXCEPT !.res = IF n.thrown THEN "throw" ELSE @],
                       n.calls, NoFx)
     /\ UNCHANGED <<now, clients, rtVars, calls, admitted, removed, prev,
                    listeners, client>>

\* listeners registered over both events
NumListeners == Len(listeners["streamChange"]) + Len(listeners["viewerChange"])

\* the array without every entry that is cb: filter(x => x !== cb)
RECURSIVE Without(_, _)
Without(ls, cb) ==
  IF ls = <<>> THEN <<>>
  ELSE (IF Head(ls) = cb THEN <<>> ELSE <<Head(ls)>>) \o Without(Tail(ls), cb)

\* on(event, callback)
LsnOn(e, cb) ==
  /\ NumListeners < MaxListeners
  /\ listeners' = [listeners EXCEPT ![e] = Append(@, cb)]
  /\ last' = Did("on", NoMetadata, NoId,
                 Outcome(stream, viewers, <<>>, "ok", NoId), <<>>)
  /\ UNCHANGED <<stream, viewers, now, clients, rtVars, calls, admitted,
                 removed, prev, client>>

\* off(event, callback)
LsnOff(e, cb) ==
  /\ listeners' = [listeners EXCEPT ![e] = Without(@, cb)]
  /\ last' = Did("off", NoMetadata, NoId,
                 Outcome(stream, viewers, <<>>, "ok", NoId), <<>>)
  /\ UNCHANGED <<stream, viewers, now, clients, rtVars, calls, admitted,
                 removed, prev, client>>

LsnStartStream ==
  \E md \in PublishMetadata :
    CallWithListeners("startStream", md, NoId, StartStream(App, now, md))

LsnStopStream ==
  CallWithListeners("stopStream", NoMetadata, NoId, StopStream(App, now))

LsnAddViewer ==
  /\ UnusedWs # {}
  /\ LET ws == CHOOSE c \in UnusedWs : \A d \in UnusedWs : c <= d
     IN CallWithListeners("addViewer", NoMetadata, ws,
                          AddViewer(App, now, ws, NextId))

LsnRemoveViewer ==
  \E id \in UUIDs :
    CallWithListeners("removeViewer", NoMetadata, id, RemoveViewer(App, now, id))

NextListeners ==
  \/ \E e \in Events, cb \in Callbacks : LsnOn(e, cb)
  \/ \E e \in Events, cb \in Callbacks : LsnOff(e, cb)
  \/ LsnStartStream
  \/ LsnStopStream
  \/ LsnAddViewer
  \/ LsnRemoveViewer

SpecListeners == Init /\ [][NextListeners]_vars

(***************************************************************************)
(* The transcoder  (src/server/transcoder.js)                              *)
(***************************************************************************)
\* the exit code of a process that a signal ended (code === null)
NullCode == -99

\* the code of the 'close' event of a child that could not be spawned: the
\* negative errno (ENOENT)
SpawnErrno == -2

\* what a transcoder function hands back: the new module state, its result
\* and what it did
TcOutcome(tc, res, fx) == [tc |-> tc, res |-> res, fx |-> fx]

\* cleanupHlsFiles(): every file under the output directory is unlinked
CleanupHlsFiles(tc) == [tc EXCEPT !.hlsFiles = FALSE]

\* an ensureOutputDirs whose catch logs and does not re-throw
EnsureOutputDirs_Swallows(mkdirOk) == "ok"

\* ensureOutputDirs(config): mkdirOk is whether existsSync / mkdirSync went
\* through; the catch logs and re-throws
EnsureOutputDirs(mkdirOk) == IF mkdirOk THEN "ok" ELSE "throw"

\* startTranscoder without its first test: it spawns whatever is held
StartTranscoder_NoGuard(tc, q, spawnOk, mkdirOk) ==
  LET cleaned == CleanupHlsFiles(tc)
      made == IF mkdirOk THEN "ok" ELSE "failed"
  IN IF EnsureOutputDirs(mkdirOk) = "throw"
     THEN TcOutcome(cleaned, "throw",
                    [NoFx EXCEPT !.cleanups = 1, !.start = "throw",
                                 !.mkdir = made])
     ELSE TcOutcome(
            [cleaned EXCEPT
               !.ffmpegProcess = q,
               !.procs[q] = [NoProcess EXCEPT
                               !.state = IF spawnOk THEN "running"
                                         ELSE "failed"]],
            "ok",
            [NoFx EXCEPT !.cleanups = 1, !.spawned = q, !.start = "ok",
                         !.mkdir = made])

\* startTranscoder(config, streamPath); q is the child object spawn returns,
\* spawnOk whether the executable could be started, mkdirOk whether
\* ensureOutputDirs could create the directories
StartTranscoder(tc, q, spawnOk, mkdirOk) ==
  IF tc.ffmpegProcess # NoProc
  THEN TcOutcome(tc, "null", [NoFx EXCEPT !.start = "null"])
  ELSE LET cleaned == CleanupHlsFiles(tc)
           made == IF mkdirOk THEN "ok" ELSE "failed"
       IN IF EnsureOutputDirs(mkdirOk) = "throw"
          THEN TcOutcome(cleaned, "throw",
                         [NoFx EXCEPT !.cleanups = 1, !.start = "throw",
                                      !.mkdir = made])
          ELSE TcOutcome(
                 [cleaned EXCEPT
                    !.ffmpegProcess = q,
                    !.procs[q] = [NoProcess EXCEPT
                                    !.state = IF spawnOk THEN "running"
                                              ELSE "failed"]],
                 "ok",
                 [NoFx EXCEPT !.cleanups = 1, !.spawned = q, !.start = "ok",
                              !.mkdir = made])

\* a stopTranscoder whose guard tests the process only: a call during a stop
\* signals, arms and registers again
StopTranscoder_NoStoppingTest(tc) ==
  IF tc.ffmpegProcess = NoProc
  THEN TcOutcome(CleanupHlsFiles(tc), "ok", [NoFx EXCEPT !.cleanups = 1])
  ELSE LET q == tc.ffmpegProcess
       IN TcOutcome(
            [tc EXCEPT !.isStopping = TRUE,
                       !.procs[q].timer = TRUE,
                       !.procs[q].stopReg = TRUE],
            "ok",
            [NoFx EXCEPT !.signals = <<(<<q, "SIGTERM">>)>>])

\* a stopTranscoder whose guard tests the flag only: with no process held it
\* sets the flag and fails on ffmpegProcess.kill of null
StopTranscoder_NoIdleTest(tc) ==
  IF tc.isStopping THEN TcOutcome(tc, "ok", NoFx)
  ELSE IF tc.ffmpegProcess = NoProc
       THEN TcOutcome([tc EXCEPT !.isStopping = TRUE], "throw", NoFx)
       ELSE LET q == tc.ffmpegProcess
            IN TcOutcome(
                 [tc EXCEPT !.isStopping = TRUE,
                            !.procs[q].timer = TRUE,
                            !.procs[q].stopReg = TRUE],
                 "ok",
                 [NoFx EXCEPT !.signals = <<(<<q, "SIGTERM">>)>>])

\* a stopTranscoder that sets its flag, timer and handler but sends no SIGTERM
StopTranscoder_NoSignal(tc) ==
  IF tc.ffmpegProcess = NoProc \/ tc.isStopping
  THEN IF ~tc.isStopping
       THEN TcOutcome(CleanupHlsFiles(tc), "ok", [NoFx EXCEPT !.cleanups = 1])
       ELSE TcOutcome(tc, "ok", NoFx)
  ELSE LET q == tc.ffmpegProcess
       IN TcOutcome(
            [tc EXCEPT !.isStopping = TRUE,
                       !.procs[q].timer = TRUE,
                       !.procs[q].stopReg = TRUE],
            "ok", NoFx)

\* stopTranscoder()
StopTranscoder(tc) ==
  IF tc.ffmpegProcess = NoProc \/ tc.isStopping
  THEN IF ~tc.isStopping
       THEN TcOutcome(CleanupHlsFiles(tc), "ok", [NoFx EXCEPT !.cleanups = 1])
       ELSE TcOutcome(tc, "ok", NoFx)
  ELSE LET q == tc.ffmpegProcess
       IN TcOutcome(
            [tc EXCEPT !.isStopping = TRUE,
                       !.procs[q].timer = TRUE,
                       !.procs[q].stopReg = TRUE],
            "ok",
            [NoFx EXCEPT !.signals = <<<<q, "SIGTERM">>>>])

\* isTranscoderRunning()
IsTranscoderRunning(tc) == tc.ffmpegProcess # NoProc

\* a crash branch that cleans up and reports but leaves the stream live
CrashRecovery_KeepsStream(a, tc, t, code) ==
  [app |-> Outcome(a.stream, a.viewers, <<>>, "ok", NoId),
   tc |-> CleanupHlsFiles(tc),
   fx |-> [NoFx EXCEPT !.cleanups = 1, !.crashes = <<code>>]]

\* a crash branch that calls stopStream whatever the stream's status
CrashRecovery_AlwaysStops(a, tc, t, code) ==
  [app |-> StopStream(a, t),
   tc |-> CleanupHlsFiles(tc),
   fx |-> [NoFx EXCEPT !.cleanups = 1, !.crashes = <<code>>]]

\* the crash branch shared by the 'close' and 'error' handlers: stopStream if
\* the stream is live, cleanupHlsFiles, onCrashCallback(code)
CrashRecovery(a, tc, t, code) ==
  [app |-> IF a.stream.status = "live"
           THEN StopStream(a, t)
           ELSE Outcome(a.stream, a.viewers, <<>>, "ok", NoId),
   tc |-> CleanupHlsFiles(tc),
   fx |-> [NoFx EXCEPT !.cleanups = 1, !.crashes = <<code>>]]

\* no crash branch taken
NoRecovery(a, tc) ==
  [app |-> Outcome(a.stream, a.viewers, <<>>, "ok", NoId), tc |-> tc,
   fx |-> NoFx]

\* a 'close' handler that does not look at the stopping flag
CloseHandler_IgnoresStopFlag(a, tc, t, code) ==
  LET cleared == [tc EXCEPT !.ffmpegProcess = NoProc]
  IN IF code # 0
     THEN CrashRecovery(a, cleared, t, code)
     ELSE NoRecovery(a, cleared)

\* a 'close' handler that takes every unrequested exit for a crash
CloseHandler_AnyCode(a, tc, t, code) ==
  LET wasExpectedStop == tc.isStopping
      cleared == [tc EXCEPT !.ffmpegProcess = NoProc]
  IN IF ~wasExpectedStop
     THEN CrashRecovery(a, cleared, t, code)
     ELSE NoRecovery(a, cleared)

\* ffmpegProcess.on('close', (code) => ...), registered by startTranscoder
CloseHandler(a, tc, t, code) ==
  LET wasExpectedStop == tc.isStopping
      cleared == [tc EXCEPT !.ffmpegProcess = NoProc]
  IN IF ~wasExpectedStop /\ code # 0
     THEN CrashRecovery(a, cleared, t, code)
     ELSE NoRecovery(a, cleared)

\* ffmpegProcess.on('error', (err) => ...), registered by startTranscoder
ErrorHandler(a, tc, t) ==
  LET wasExpectedStop == tc.isStopping
      cleared == [tc EXCEPT !.ffmpegProcess = NoProc]
  IN IF ~wasExpectedStop
     THEN CrashRecovery(a, cleared, t, -1)
     ELSE NoRecovery(a, cleared)

\* a stop path that resets the supervisor but leaves the files
StopCloseHandler_NoCleanup(r, q) ==
  [app |-> r.app,
   tc |-> [r.tc EXCEPT !.procs[q].timer = FALSE,
                       !.ffmpegProcess = NoProc,
                       !.isStopping = FALSE],
   fx |-> r.fx]

\* a stop path without clearTimeout(killTimeout)
StopCloseHandler_KeepsTimer(r, q) ==
  [app |-> r.app,
   tc |-> CleanupHlsFiles([r.tc EXCEPT !.ffmpegProcess = NoProc,
                                       !.isStopping = FALSE]),
   fx |-> [r.fx EXCEPT !.cleanups = @ + 1]]

\* a stop path that leaves isStoppingTranscoder set
StopCloseHandler_KeepsFlag(r, q) ==
  [app |-> r.app,
   tc |-> CleanupHlsFiles([r.tc EXCEPT !.procs[q].timer = FALSE,
                                       !.ffmpegProcess = NoProc]),
   fx |-> [r.fx EXCEPT !.cleanups = @ + 1]]

\* ffmpegProcess.once('close', ...), registered by stopTranscoder on q
StopCloseHandler(r, q) ==
  [app |-> r.app,
   tc |-> CleanupHlsFiles([r.tc EXCEPT !.procs[q].timer = FALSE,
                                       !.ffmpegProcess = NoProc,
                                       !.isStopping = FALSE]),
   fx |-> [r.fx EXCEPT !.cleanups = @ + 1]]

\* a killTimeout callback that only logs
KillTimeoutCallback_NoKill(tc) == TcOutcome(tc, "ok", NoFx)

\* the killTimeout callback of stopTranscoder
KillTimeoutCallback(tc) ==
  IF tc.ffmpegProcess # NoProc
  THEN TcOutcome([tc EXCEPT !.procs[tc.ffmpegProcess].killed = TRUE], "ok",
                 [NoFx EXCEPT !.signals = <<<<tc.ffmpegProcess, "SIGKILL">>>>])
  ELSE TcOutcome(tc, "ok", NoFx)

\* a child object that ended and that no pending timer refers to is garbage
Settle(pr) == IF pr.state = "none" /\ ~pr.timer THEN NoProcess ELSE pr

\* a child object after its 'close': nothing of it is left but a killTimeout
\* that no handler cleared
Ended(pr) == Settle([NoProcess EXCEPT !.timer = pr.timer])

\* process.nextTick work is pending: Node runs it before any other event
TickPending == \E q \in Procs : procs[q].state = "failed"

\* child objects that spawn may return
FreeProcs == {q \in Procs : procs[q] = NoProcess}

(***************************************************************************)
(* The RTMP handlers  (src/server/rtmp.js)                                 *)
(***************************************************************************)
\* a publish path is a string, held as its characters; "live" and "key" stand
\* for those runs of characters
Paths ==
  { <<"/", "live", "/", "key">>,
    <<"/", "live", "/", "key", "/", "key">>,
    <<"/", "live", "/">>,
    <<"/", "live">>,
    <<"/", "key", "/", "key">>,
    <<"live", "/", "key">> }

\* String.prototype.split('/'): the pieces between the separators
RECURSIVE SplitFrom(_, _, _)
SplitFrom(path, i, piece) ==
  IF i > Len(path) THEN <<piece>>
  ELSE IF path[i] = "/" THEN <<piece>> \o SplitFrom(path, i + 1, "")
  ELSE SplitFrom(path, i + 1, piece \o path[i])

Split(path) == SplitFrom(path, 1, "")

\* the path test without its last disjunct: an empty stream key passes
InvalidStreamPath_AnyThirdSegment(pathParts) ==
  \/ Len(pathParts) < 3
  \/ pathParts[2] # "live"

\* pathParts.length < 3 || pathParts[1] !== 'live' || !pathParts[2]
InvalidStreamPath(pathParts) ==
  \/ Len(pathParts) < 3
  \/ pathParts[2] # "live"
  \/ ~StrTruthy(pathParts[3])

\* nms.getSession(id)
GetSession(ss, id) == ss[id]

\* if (session): the session object exists
Exists(session) == session.phase # "none"

\* the remote address of the x-th connection
SessionAddr(x) == IF x = 1 THEN "10.0.0.5" ELSE "10.0.0.6"

\* the resolution string `${videoWidth}x${videoHeight}`
ResolutionString(w, h) == ToString(w) \o "x" \o ToString(h)

\* extractMetadata(session); the remote addresses here are IPv4 addresses
\* without the ::ffff: prefix, so the prefix strip leaves them as they are
ExtractMetadata(session) ==
  IF ~Exists(session) THEN Metadata("unknown", "unknown", 0)
  ELSE Metadata(
         IF StrTruthy(session.ip) THEN session.ip ELSE "unknown",
         IF session.w # 0 /\ session.h # 0
         THEN ResolutionString(session.w, session.h) ELSE "unknown",
         (IF session.ab # 0 THEN session.ab ELSE 0)
           + (IF session.vb # 0 THEN session.vb ELSE 0))

\* what a session knows of its stream once frames have arrived, and before
\* that (NoFrames); 0 stands for a property that is not set
NoFrames == [w |-> 0, h |-> 0, ab |-> 0, vb |-> 0]

FrameInfos ==
  { [w |-> 1280, h |-> 720, ab |-> 0, vb |-> 2500],
    [w |-> 0, h |-> 0, ab |-> 128, vb |-> 0] }

\* the session object with the parameters f that NMS has written to it
WithFrames(session, f) ==
  IF Exists(session)
  THEN [session EXCEPT !.w = f.w, !.h = f.h, !.ab = f.ab, !.vb = f.vb]
  ELSE session

\* the connection slot a new session takes
FreeSessions == {x \in Sessions : sessions[x] = NoSession}

\* nms.on('prePublish', ...) for a connection that asks to publish;
\* session.reject() ends the session, so a rejected one is gone afterwards
PrePublish(x, path) ==
  /\ ~TickPending
  /\ x \in FreeSessions /\ \A y \in FreeSessions : x <= y
  /\ LET created == [sessions EXCEPT
                       ![x] = [NoSession EXCEPT !.phase = "accepted",
                                                !.ip = SessionAddr(x)]]
         session == GetSession(created, x)
         refused == InvalidStreamPath(Split(path)) \/ ~CanStream(stream)
         rejected == refused /\ Exists(session)
     IN /\ sessions' = IF rejected THEN sessions ELSE created
        /\ RememberAll("prePublish", NoMetadata, x, path,
                       Outcome(stream, viewers, <<>>,
                               IF rejected THEN "rejected" ELSE "accepted",
                               NoId),
                       <<>>, NoFx)
        /\ UNCHANGED <<stream, viewers, now, clients, ffmpegProcess,
                       isStoppingTranscoder, procs, hlsFiles, calls,
                       admitted, removed>>

\* nms.on('postPublish', ...) with the streamStart listener of index.js, which
\* calls startTranscoder; an exception of startTranscoder leaves the handler
\* before setTimeout is reached
PostPublish(x) ==
  /\ ~TickPending
  /\ sessions[x].phase = "accepted"
  /\ ffmpegProcess # NoProc \/ FreeProcs # {}
  /\ \E spawnOk \in BOOLEAN, mkdirOk \in BOOLEAN :
       LET session == GetSession(sessions, x)
           metadata == ExtractMetadata(session)
           out == StartStream(App, now, metadata)
           q == IF FreeProcs = {} THEN NoProc
                ELSE CHOOSE f \in FreeProcs : \A g \in FreeProcs : f <= g
           started == StartTranscoder(Tc, q, spawnOk, mkdirOk)
       IN /\ Commit(out)
          /\ CommitTc(started.tc)
          /\ sessions' = [sessions EXCEPT
                            ![x].phase = "publishing",
                            ![x].refresh = (started.res # "throw")]
          /\ RememberAll("postPublish", metadata, x, <<>>, out,
                         Broadcasts(clients, out.emits), started.fx)
          /\ UNCHANGED <<now, clients, calls, admitted, removed>>

\* a re-check armed with setInterval: it stays pending once it has run
MetadataRefresh_Repeats(x) ==
  /\ ~TickPending
  /\ sessions[x].refresh
  /\ \E f \in FrameInfos \cup {NoFrames} :
     LET currentSession == WithFrames(GetSession(sessions, x), f)
         updatedMetadata == ExtractMetadata(currentSession)
         out == IF /\ Exists(currentSession)
                   /\ stream.status = "live"
                   /\ \/ updatedMetadata.resolution # "unknown"
                      \/ updatedMetadata.bitrate > 0
                THEN UpdateStreamMetadata(App, now, updatedMetadata)
                ELSE Outcome(stream, viewers, <<>>, "skip", NoId)
     IN /\ Commit(out)
        /\ sessions' = sessions
        /\ RememberAll("metadataRefresh", updatedMetadata, x, <<>>, out,
                       Broadcasts(clients, out.emits), NoFx)
        /\ UNCHANGED <<now, clients, ffmpegProcess, isStoppingTranscoder,
                       procs, hlsFiles, calls, admitted, removed>>

\* the setTimeout callback of postPublish, 500 ms later; by then the frames
\* have told the session its parameters (f), or none has arrived
MetadataRefresh(x) ==
  /\ ~TickPending
  /\ sessions[x].refresh
  /\ \E f \in FrameInfos \cup {NoFrames} :
     LET currentSession == WithFrames(GetSession(sessions, x), f)
         updatedMetadata == ExtractMetadata(currentSession)
         out == IF /\ Exists(currentSession)
                   /\ stream.status = "live"
                   /\ \/ updatedMetadata.resolution # "unknown"
                      \/ updatedMetadata.bitrate > 0
                THEN UpdateStreamMetadata(App, now, updatedMetadata)
                ELSE Outcome(stream, viewers, <<>>, "skip", NoId)
     IN /\ Commit(out)
        /\ sessions' = [sessions EXCEPT ![x].refresh = FALSE]
        /\ RememberAll("metadataRefresh", updatedMetadata, x, <<>>, out,
                       Broadcasts(clients, out.emits), NoFx)
        /\ UNCHANGED <<now, clients, ffmpegProcess, isStoppingTranscoder,
                       procs, hlsFiles, calls, admitted, removed>>

\* nms.on('donePublish', ...) with the streamStop listener of index.js, which
\* calls stopTranscoder
DonePublish(x) ==
  /\ ~TickPending
  /\ sessions[x].phase = "publishing"
  /\ LET out == StopStream(App, now)
         stopped == StopTranscoder(Tc)
     IN /\ Commit(out)
        /\ CommitTc(stopped.tc)
        /\ sessions' = [sessions EXCEPT ![x].phase = "idle"]
        /\ RememberAll("donePublish", NoMetadata, x, <<>>, out,
                       Broadcasts(clients, out.emits), stopped.fx)
        /\ UNCHANGED <<now, clients, calls, admitted, removed>>

\* a session that is not publishing disconnects; a pending setTimeout of its
\* id stays pending
SessionGone(x) ==
  /\ ~TickPending
  /\ sessions[x].phase \in {"accepted", "idle"}
  /\ sessions' = [sessions EXCEPT
                    ![x] = [NoSession EXCEPT !.refresh = sessions[x].refresh]]
  /\ RememberAll("sessionGone", NoMetadata, x, <<>>,
                 Outcome(stream, viewers, <<>>, "ok", NoId), <<>>, NoFx)
  /\ UNCHANGED <<stream, viewers, now, clients, ffmpegProcess,
                 isStoppingTranscoder, procs, hlsFiles, calls, admitted,
                 removed>>

(***************************************************************************)
(* The events of the child process.                                        *)
(***************************************************************************)
\* exit codes the 'close' of a process that ran can carry: 0, a non-zero
\* code, or null after a signal
ExitCodes == {0, 1, NullCode}

\* what two handlers that run one after the other did
ThenFx(f, g) ==
  [cleanups |-> f.cleanups + g.cleanups, crashes |-> f.crashes \o g.crashes,
   signals |-> f.signals \o g.signals,
   spawned |-> IF g.spawned # NoProc THEN g.spawned ELSE f.spawned,
   start |-> IF g.start # "none" THEN g.start ELSE f.start,
   exit |-> f.exit \o g.exit,
   mkdir |-> IF g.mkdir # "none" THEN g.mkdir ELSE f.mkdir]

\* handler result g, which began where f ended, seen as one result
Then(f, g) ==
  [app |-> Outcome(g.app.stream, g.app.viewers, f.app.emits \o g.app.emits,
                   g.app.res, g.app.sid),
   tc |-> g.tc, fx |-> ThenFx(f.fx, g.fx)]

\* the AppState a handler result leaves
AppOf(r) == [stream |-> r.app.stream, viewers |-> r.app.viewers]

\* the listeners of q's 'close' event, in the order they were registered: the
\* handler of startTranscoder, then the once-handler of stopTranscoder
CloseListeners(a, tc, t, q, code) ==
  LET first == CloseHandler(a, tc, t, code)
      noted == [first EXCEPT !.fx.exit = <<code>>]
  IN IF tc.procs[q].stopReg THEN StopCloseHandler(noted, q) ELSE noted

\* the child emits 'close': its listeners run and the child is gone
OnProcClose(q) ==
  /\ ~TickPending
  /\ procs[q].state = "running"
  /\ \E code \in ExitCodes :
       LET both == CloseListeners(App, Tc, now, q, code)
       IN /\ Commit(both.app)
          /\ CommitTc([both.tc EXCEPT !.procs[q] = Ended(@)])
          /\ RememberAll("procClose", NoMetadata, q, <<>>, both.app,
                         Broadcasts(clients, both.app.emits), both.fx)
          /\ UNCHANGED <<now, clients, sessions, calls, admitted, removed>>

\* the child could not be spawned: on the next tick it emits 'error' and
\* then, in the same call, 'close' with the negative errno
OnProcError(q) ==
  /\ procs[q].state = "failed"
  /\ LET erred == ErrorHandler(App, Tc, now)
         closed == CloseListeners(AppOf(erred), erred.tc, now, q, SpawnErrno)
         r == Then(erred, closed)
     IN /\ Commit(r.app)
        /\ CommitTc([r.tc EXCEPT !.procs[q] = Ended(@)])
        /\ RememberAll("procError", NoMetadata, q, <<>>, r.app,
                       Broadcasts(clients, r.app.emits), r.fx)
        /\ UNCHANGED <<now, clients, sessions, calls, admitted, removed>>

\* the killTimeout armed by the stopTranscoder call on q fires, 5 s later
KillTimeout(q) ==
  /\ ~TickPending
  /\ procs[q].timer
  /\ LET r == KillTimeoutCallback(Tc)
     IN /\ CommitTc([r.tc EXCEPT
                       !.procs[q] = Settle([@ EXCEPT !.timer = FALSE])])
        /\ RememberAll("killTimeout", NoMetadata, q, <<>>,
                       Outcome(stream, viewers, <<>>, "ok", NoId), <<>>, r.fx)
        /\ UNCHANGED <<stream, viewers, now, clients, sessions, calls,
                       admitted, removed>>

\* a running FFmpeg writes a segment or a playlist
FfmpegWrites(q) ==
  /\ ~TickPending
  /\ procs[q].state = "running"
  /\ ~hlsFiles
  /\ hlsFiles' = TRUE
  /\ RememberAll("ffmpegWrites", NoMetadata, q, <<>>,
                 Outcome(stream, viewers, <<>>, "ok", NoId), <<>>, NoFx)
  /\ UNCHANGED <<stream, viewers, now, clients, sessions, ffmpegProcess,
                 isStoppingTranscoder, procs, calls, admitted, removed>>

Next ==
  \/ \E x \in Sessions, path \in Paths : PrePublish(x, path)
  \/ \E x \in Sessions : PostPublish(x)
  \/ \E x \in Sessions : MetadataRefresh(x)
  \/ \E x \in Sessions : DonePublish(x)
  \/ \E x \in Sessions : SessionGone(x)
  \/ \E q \in Procs : OnProcClose(q)
  \/ \E q \in Procs : OnProcError(q)
  \/ \E q \in Procs : KillTimeout(q)
  \/ \E q \in Procs : FfmpegWrites(q)

Spec == Init /\ [][Next]_vars

\* the same program with what its timers and the operating system guarantee:
\* a pending killTimeout fires, and a process that was sent SIGKILL exits
KilledExits(q) == procs[q].killed /\ OnProcClose(q)

SpecLive ==
  /\ Init /\ [][Next]_vars
  /\ \A q \in Procs : WF_vars(KillTimeout(q))
  /\ \A q \in Procs : WF_vars(KilledExits(q))

(***************************************************************************)
(* SpecClient: the status client of one viewer page  (public/js/status.js) *)
(* and what its socket and its page do to it.                              *)
(***************************************************************************)
\* close codes a CloseEvent brings: normal, abnormal (no close frame), and
\* the server's Policy Violation
CloseCodes == {1000, 1006, PolicyViolation}

\* connect(): nothing while a socket is connecting or open, else a new socket
Connect(cl) ==
  IF cl.ws \in {"CONNECTING", "OPEN"} THEN cl
  ELSE [cl EXCEPT !.ws = "CONNECTING"]

\* scheduleReconnect(): the pending timer, if any, is replaced
ScheduleReconnect(cl) ==
  [cl EXCEPT !.reconnectTimer = TRUE,
             !.reconnectAttempt = IF @ < MaxAttempts THEN @ + 1 ELSE @]

\* startFallbackPolling() / stopFallbackPolling()
StartFallbackPolling(cl) == [cl EXCEPT !.fallbackPollTimer = TRUE]
StopFallbackPolling(cl) == [cl EXCEPT !.fallbackPollTimer = FALSE]

\* showRoomFull()
ShowRoomFull(cl) == [cl EXCEPT !.full = TRUE]

\* handleOpen()
HandleOpen(cl) == StopFallbackPolling([cl EXCEPT !.ws = "OPEN", !.reconnectAttempt = 0])

\* handleClose(event)
HandleClose(cl, code) ==
  LET closed == [cl EXCEPT !.ws = "null"]
  IN IF code = PolicyViolation
     THEN [ShowRoomFull(closed) EXCEPT !.rejected = TRUE]
     ELSE StartFallbackPolling(ScheduleReconnect(closed))

\* handleVisibilityChange(), document.hidden being h
HandleVisibilityChange(cl, h) ==
  IF ~h /\ cl.ws # "OPEN"
  THEN Connect([cl EXCEPT !.reconnectAttempt = 0])
  ELSE cl

\* destroy()
Destroy(cl) ==
  [StopFallbackPolling(cl) EXCEPT !.reconnectTimer = FALSE, !.ws = "null",
                                  !.listening = FALSE]

\* what the server side of the model does not see of a client event
ClientStep(op) ==
  /\ last' = [last EXCEPT !.op = op]
  /\ UNCHANGED <<stream, viewers, now, clients, rtVars, calls, admitted,
                 removed, listeners, prev>>

\* the socket's open event
ClientOpen ==
  /\ client.ws = "CONNECTING"
  /\ client' = HandleOpen(client)
  /\ ClientStep("handleOpen")

\* the socket's message event with an error message of the server
ClientErrorMessage ==
  /\ client.ws = "OPEN"
  /\ client' = ShowRoomFull(client)
  /\ ClientStep("handleServerError")

\* the socket's close event: a socket that never opened closes abnormally
ClientClose(code) ==
  /\ client.ws \in {"CONNECTING", "OPEN"}
  /\ client.ws = "CONNECTING" => code = 1006
  /\ client' = HandleClose(client, code)
  /\ ClientStep("handleClose")

\* the setTimeout callback of scheduleReconnect
ClientReconnectTimer ==
  /\ client.reconnectTimer
  /\ client' = Connect([client EXCEPT !.reconnectTimer = FALSE])
  /\ ClientStep("reconnectTimer")

\* the page is hidden or shown
ClientVisibilityChange ==
  /\ client.listening
  /\ client' = HandleVisibilityChange([client EXCEPT !.hidden = ~@],
                                      ~client.hidden)
  /\ ClientStep("handleVisibilityChange")

\* the page unloads
ClientUnload ==
  /\ client.listening
  /\ client' = Destroy(client)
  /\ ClientStep("destroy")

NextClient ==
  \/ ClientOpen
  \/ ClientErrorMessage
  \/ \E code \in CloseCodes : ClientClose(code)
  \/ ClientReconnectTimer
  \/ ClientVisibilityChange
  \/ ClientUnload

SpecClient == Init /\ [][NextClient]_vars

(***************************************************************************)
(* Properties.                                                             *)
(***************************************************************************)
Min(a, b) == IF a <= b THEN a ELSE b

\* a live-only field holds a value
HasAddress(s) == s.publisherIP # Undefined
HasResolution(s) == s.resolution # Undefined
HasBitrate(s) == s.bitrate # NoNum
HasStartTime(s) == s.startTime # NoNum

\* the 'unknown' sentinel or no resolution at all
IsSentinelResolution(r) == r \in {"unknown", Undefined, ""}
\* the 0 sentinel or no bitrate at all
IsSentinelBitrate(b) == b \in {0, NoNum}

\* C1: under any interleaving of connects, disconnects and heartbeat
\* force-closes the registry holds at most maxViewers sessions, and no two
\* held sessions share an id (nor a socket).
C1_RegistryBoundedAndIdsUnique ==
  /\ Cardinality(DOMAIN viewers) <= MaxViewers
  /\ \A i \in DOMAIN viewers : viewers[i].id = i
  /\ \A i, j \in DOMAIN viewers :
       (viewers[i].id = viewers[j].id \/ viewers[i].websocket = viewers[j].websocket)
         => i = j
  /\ \A c, d \in Channels :
       (clients[c].sid # NoId /\ clients[c].sid = clients[d].sid) => c = d

\* C1 witness: the registry is full, one of its sockets was terminated by the
\* heartbeat and has not emitted 'close' yet, and a connect was just refused
C1_Witness ==
  /\ Cardinality(DOMAIN viewers) = MaxViewers
  /\ last.op = "connection" /\ last.res = "null"
  /\ \E c \in Channels :
       /\ clients[c].readyState = "CLOSING"
       /\ clients[c].isAlive = "false"
       /\ clients[c].sid \in DOMAIN viewers

\* C2: K addViewer calls against a fresh registry of capacity N, none of them
\* followed by a removal: exactly min(N, K) calls returned a session, the
\* others returned null, and the registry holds the admitted sessions.
C2_AdmitsMinOfCapacityAndCalls ==
  ~removed =>
    /\ admitted = Min(MaxViewers, calls)
    /\ Cardinality(DOMAIN viewers) = admitted

\* C2 witness: more calls than capacity were made and the registry is full
C2_Witness ==
  /\ ~removed
  /\ calls > MaxViewers
  /\ admitted = MaxViewers
  /\ last.op = "addViewer" /\ last.res = "null"

\* C3: addViewer with N-1 viewers succeeds and makes the count N; addViewer
\* with N viewers returns null, creates no session, leaves the viewers and the
\* stream as they were and emits no viewerChange.
C3_CapacityBoundary ==
  last.op = "addViewer" =>
    /\ Cardinality(DOMAIN last.vbefore) = MaxViewers - 1 =>
         /\ last.res = "ok"
         /\ last.sid \in DOMAIN viewers
         /\ Cardinality(DOMAIN viewers) = MaxViewers
    /\ Cardinality(DOMAIN last.vbefore) >= MaxViewers =>
         /\ last.res = "null"
         /\ last.sid = NoId
         /\ viewers = last.vbefore
         /\ stream = last.before
         /\ last.emits = <<>>

\* C3 witness: an addViewer call was made against a full registry, right
\* after the call that filled it
C3_Witness ==
  /\ last.op = "addViewer"
  /\ Cardinality(DOMAIN last.vbefore) = MaxViewers
  /\ last.res = "null"
  /\ prev.op = "addViewer" /\ prev.nemits = 1

\* C4: startStream while live throws, keeps publisherIP, resolution, bitrate
\* and startTime of the running stream and emits no streamChange.
C4_StartWhileLiveFails ==
  (last.op = "startStream" /\ last.before.status = "live") =>
    /\ last.res = "throw"
    /\ stream = last.before
    /\ last.emits = <<>>

\* C4 witness: a second startStream with other metadata, later than the first
C4_Witness ==
  /\ last.op = "startStream"
  /\ last.before.status = "live"
  /\ last.res = "throw"
  /\ last.md.publisherIP # last.before.publisherIP
  /\ StrTruthy(last.md.resolution) /\ last.md.resolution # last.before.resolution
  /\ now # last.before.startTime

\* C5: a pre-publish that arrives while the stream is live is rejected, and
\* no pre-publish, accepted or rejected, changes the stream, the viewer
\* registry or the transcoder's state (current process, stopping flag, child
\* processes, output files); it emits nothing, spawns nothing, signals nothing.
C5_PrePublishRejectedWhileLiveAndPure ==
  [][last'.op = "prePublish" =>
       /\ stream.status = "live" => last'.res = "rejected"
       /\ last'.res \in {"accepted", "rejected"}
       /\ UNCHANGED <<stream, viewers>>
       /\ UNCHANGED <<ffmpegProcess, isStoppingTranscoder, procs, hlsFiles>>
       /\ last'.emits = <<>> /\ last'.sends = <<>> /\ last'.fx = NoFx]_vars

\* C5 witness: a well-formed pre-publish arrived while another publisher was
\* live with its FFmpeg running, and was rejected
C5_Witness ==
  /\ last.op = "prePublish"
  /\ last.path = <<"/", "live", "/", "key">>
  /\ last.res = "rejected"
  /\ stream.status = "live"
  /\ ffmpegProcess # NoProc /\ procs[ffmpegProcess].state = "running"
  /\ \E x \in Sessions : x # last.arg /\ sessions[x].phase = "publishing"

\* C6: live implies the four live-only fields are all set, offline implies
\* they are all absent.
C6_LiveFieldsAllOrNothing ==
  /\ stream.status \in {"live", "offline"}
  /\ stream.status = "live" =>
       HasAddress(stream) /\ HasResolution(stream)
         /\ HasBitrate(stream) /\ HasStartTime(stream)
  /\ stream.status = "offline" =>
       ~HasAddress(stream) /\ ~HasResolution(stream)
         /\ ~HasBitrate(stream) /\ ~HasStartTime(stream)

\* C6 witness: a stream that was started, refreshed and then stopped
C6_Witness ==
  /\ last.op = "stopStream"
  /\ last.before.status = "live"
  /\ prev.op = "updateStreamMetadata" /\ prev.nemits = 1
  /\ stream.status = "offline"

\* C7 as claimed: stopStream on an offline stream changes nothing and emits
\* nothing, so two stopStream calls in a row on a live stream emit once.
C7_Original ==
  /\ (last.op = "stopStream" /\ last.before.status = "offline") =>
       stream = last.before /\ last.emits = <<>>
  /\ (last.op = "stopStream" /\ prev.op = "stopStream" /\ prev.pre = "live") =>
       prev.nemits + Len(last.emits) = 1

\* C7 amended: stopStream always leaves the stream offline with every
\* live-only field cleared, so on an offline stream it changes no field; but
\* every call emits one streamChange, so two calls in a row on a live stream
\* emit two.
C7_StopStreamClearsAndAlwaysNotifies ==
  last.op = "stopStream" =>
    /\ stream = OfflineStream
    /\ last.before.status = "offline" => stream = last.before
    /\ Len(last.emits) = 1
    /\ last.emits[1].event = "streamChange" /\ ~last.emits[1].info.live
    /\ (prev.op = "stopStream" /\ prev.pre = "live") =>
         prev.nemits + Len(last.emits) = 2

\* C7 witness: stopStream was called twice in a row, first on a live stream
C7_Witness ==
  /\ last.op = "stopStream"
  /\ last.before.status = "offline"
  /\ prev.op = "stopStream" /\ prev.pre = "live"

\* C8: updateStreamMetadata never turns a known resolution into 'unknown' nor
\* a positive bitrate into 0; a field whose new value is a sentinel or absent
\* keeps its value; a partial of sentinels only changes nothing and emits
\* nothing.
C8_NoRegressionToSentinel ==
  last.op = "updateStreamMetadata" =>
    /\ last.before.resolution \in KnownResolutions =>
         stream.resolution \in KnownResolutions
    /\ last.before.bitrate > 0 => stream.bitrate > 0
    /\ IsSentinelResolution(last.md.resolution) =>
         stream.resolution = last.before.resolution
    /\ IsSentinelBitrate(last.md.bitrate) =>
         stream.bitrate = last.before.bitrate
    /\ (IsSentinelResolution(last.md.resolution)
          /\ IsSentinelBitrate(last.md.bitrate)) =>
         stream = last.before /\ last.emits = <<>>

\* C8 witness: {resolution: 'unknown', bitrate: 0} met a live stream with a
\* known resolution and a positive bitrate
C8_Witness ==
  /\ last.op = "updateStreamMetadata"
  /\ last.before.status = "live"
  /\ last.before.resolution \in KnownResolutions
  /\ last.before.bitrate > 0
  /\ last.md.resolution = "unknown"
  /\ last.md.bitrate = 0

\* C9 as claimed: updateStreamMetadata emits only if a stored field ends with
\* a value other than the one it had.
C9_Original ==
  (last.op = "updateStreamMetadata" /\ last.emits # <<>>) =>
    (stream.resolution # last.before.resolution
       \/ stream.bitrate # last.before.bitrate)

\* C9 amended: on a live stream updateStreamMetadata emits one streamChange
\* exactly when the partial carries a known resolution or a positive bitrate,
\* whether or not that value differs from the stored one; hence every call
\* that changes a stored field emits, and so does a partial that repeats the
\* stored values.  On an offline stream it emits nothing.
C9_NotifiesWhenAFieldIsAssigned ==
  last.op = "updateStreamMetadata" =>
    /\ Len(last.emits) <= 1
    /\ last.emits # <<>> <=>
         /\ last.before.status = "live"
         /\ \/ ~IsSentinelResolution(last.md.resolution)
            \/ ~IsSentinelBitrate(last.md.bitrate)
    /\ stream # last.before => last.emits # <<>>
    /\ last.emits # <<>> =>
         /\ last.emits[1].event = "streamChange"
         /\ last.emits[1].info.resolution = stream.resolution
         /\ last.emits[1].info.bitrate = stream.bitrate

\* C9 witness: the partial repeated the stored resolution and bitrate and a
\* notification was emitted all the same
C9_Witness ==
  /\ last.op = "updateStreamMetadata"
  /\ last.before.status = "live"
  /\ last.md.resolution = last.before.resolution
  /\ last.md.bitrate = last.before.bitrate
  /\ stream = last.before
  /\ Len(last.emits) = 1

\* the stream-key segment of a publish path: what stands between its second
\* slash and the next one (or the end); absent if there is no second slash
Slashes(path) == {i \in 1 .. Len(path) : path[i] = "/"}

HasStreamKey(path) ==
  \E i \in Slashes(path), j \in Slashes(path) :
    /\ i < j
    /\ Cardinality({k \in Slashes(path) : k <= j}) = 2
    /\ j < Len(path) /\ path[j + 1] # "/"

\* C10: a pre-publish whose path has no non-empty stream-key segment is
\* rejected, and handling it mutates neither the stream nor the viewers and
\* starts no transcode process.
C10_NoStreamKeyRejectedBeforeAnyMutation ==
  [][(last'.op = "prePublish" /\ ~HasStreamKey(last'.path)) =>
       /\ last'.res = "rejected"
       /\ UNCHANGED <<stream, viewers>>
       /\ last'.emits = <<>>
       /\ last'.fx.spawned = NoProc /\ last'.fx.start = "none"
       /\ UNCHANGED <<ffmpegProcess, procs>>]_vars

\* C10 witness: "/live/", with an empty stream key, was rejected while the
\* stream was offline and nobody was publishing, so the path alone caused it
C10_Witness ==
  /\ last.op = "prePublish"
  /\ last.path = <<"/", "live", "/">>
  /\ ~HasStreamKey(last.path)
  /\ last.res = "rejected"
  /\ stream.status = "offline"
  /\ ffmpegProcess = NoProc

\* the process whose 'close' the last handler handled was the one the
\* supervisor held, no stop had been requested for it, and it ended with code
CrashedWith(code) ==
  /\ last'.op = "procClose" /\ last'.fx.exit = <<code>>
  /\ ffmpegProcess = last'.arg
  /\ procs[ffmpegProcess].state = "running"
  /\ ~isStoppingTranscoder /\ ~procs[ffmpegProcess].stopReg

C12_ExitAfterStopCleansOnce ==
  [][(last'.op = "procClose" /\ procs[last'.arg].stopReg) =>
       /\ last'.fx.cleanups = 1
       /\ last'.fx.crashes = <<>>
       /\ last'.emits = <<>> /\ stream' = stream
       /\ ~hlsFiles'
       /\ ffmpegProcess' = NoProc /\ ~isStoppingTranscoder']_vars

\* C12 witness: a stopped process exited with a non-zero code, the case in
\* which the crash path would run if the flag did not hold it back
C12_Witness ==
  /\ last.op = "procClose" /\ last.fx.exit = <<1>>
  /\ last.fx.cleanups = 1 /\ last.fx.crashes = <<>>
  /\ last.emits = <<>>
  /\ ffmpegProcess = NoProc /\ ~isStoppingTranscoder

\* the child processes that exist
Existing == {q \in Procs : procs[q].state # "none"}

\* C13: in every state at most one transcode process exists, and it is the
\* one the supervisor holds; startTranscoder called while a process is held
\* (just spawned, running or being stopped) returns null, spawns nothing,
\* cleans nothing and leaves the held process and the stopping flag as they
\* were.
C13_AtMostOneProcess ==
  /\ [](Cardinality(Existing) <= 1 /\ Existing \subseteq {ffmpegProcess})
  /\ [][(last'.op = "postPublish" /\ ffmpegProcess # NoProc) =>
         /\ last'.fx.start = "null"
         /\ last'.fx.spawned = NoProc
         /\ last'.fx.cleanups = 0 /\ last'.fx.signals = <<>>
         /\ UNCHANGED <<ffmpegProcess, isStoppingTranscoder, procs,
                        hlsFiles>>]_vars

\* C13 witness: a publisher was confirmed while the previous session's
\* process had been signalled but had not exited; startTranscoder returned
\* null and that process is still the only one
C13_Witness ==
  /\ last.op = "postPublish" /\ last.fx.start = "null"
  /\ ffmpegProcess # NoProc /\ isStoppingTranscoder
  /\ procs[ffmpegProcess].state = "running"
  /\ Existing = {ffmpegProcess}
  /\ stream.status = "live"

Idle == ffmpegProcess = NoProc /\ ~isStoppingTranscoder

\* C15: a stopTranscoder call on a held process sends SIGTERM at once, sets
\* the stopping flag and arms the kill timer; when the timer fires and the
\* process has not exited, SIGKILL is sent to it; and, a killed process
\* exiting, the supervisor always gets from Stopping back to Idle.
C15_StopEventuallyIdle ==
  /\ [][(last'.op = "donePublish" /\ ffmpegProcess # NoProc
           /\ ~isStoppingTranscoder) =>
         /\ last'.fx.signals = <<<<ffmpegProcess, "SIGTERM">>>>
         /\ isStoppingTranscoder'
         /\ procs'[ffmpegProcess].timer /\ procs'[ffmpegProcess].stopReg
         /\ ffmpegProcess' = ffmpegProcess]_vars
  /\ [][(last'.op = "killTimeout" /\ procs[last'.arg].state = "running") =>
         /\ last'.fx.signals = <<<<last'.arg, "SIGKILL">>>>
         /\ procs'[last'.arg].killed]_vars
  /\ (isStoppingTranscoder ~> Idle)

\* C15 witness: the grace timer fired while the stopped process was still
\* running, so SIGKILL was sent to it
C15_Witness ==
  /\ last.op = "killTimeout"
  /\ last.fx.signals = <<<<last.arg, "SIGKILL">>>>
  /\ isStoppingTranscoder /\ ffmpegProcess = last.arg
  /\ procs[last.arg].state = "running" /\ procs[last.arg].killed

\* C16: a connection refused for capacity is sent one message, the error
\* payload with code ROOM_FULL, while it is still open; it is then closed
\* with code 1008; no session exists for it, the registry is as it was and
\* no viewerChange was emitted, so no other channel was sent anything.
C16_RoomFullErrorThenClose ==
  (last.op = "connection" /\ last.res = "null") =>
    /\ last.sends = <<[to |-> last.arg, type |-> "error",
                      code |-> "ROOM_FULL", info |-> NoInfo]>>
    /\ clients[last.arg].readyState = "CLOSING"
    /\ clients[last.arg].closeCode = 1008
    /\ clients[last.arg].sid = NoId
    /\ \A id \in DOMAIN viewers : viewers[id].websocket # last.arg
    /\ viewers = last.vbefore
    /\ last.emits = <<>>

\* C16 witness: a channel connected while the room was full and was refused
C16_Witness ==
  /\ last.op = "connection" /\ last.res = "null"
  /\ Cardinality(DOMAIN viewers) = MaxViewers
  /\ Len(last.sends) = 1 /\ last.sends[1].code = "ROOM_FULL"
  /\ clients[last.arg].closeCode = 1008

\* the messages of the last handler that went to channel c
SentTo(c) == {i \in 1 .. Len(last.sends) : last.sends[i].to = c}

\* C17: while its own connection event is handled, an admitted channel is
\* sent a status message; the handler's final message is the sendStatus one,
\* addressed to it; and every status it is sent in that handler counts the
\* new viewer (the count before plus one, the registry's size now) and
\* carries the live flag of the stream at that moment.
C17_AdmittedChannelGetsFreshSnapshot ==
  (last.op = "connection" /\ last.res = "ok") =>
    /\ SentTo(last.arg) # {}
    /\ Len(last.sends) \in SentTo(last.arg)
    /\ \A i \in SentTo(last.arg) :
         /\ last.sends[i].type = "status"
         /\ last.sends[i].info.viewerCount = Cardinality(DOMAIN viewers)
         /\ last.sends[i].info.viewerCount
              = Cardinality(DOMAIN last.vbefore) + 1
         /\ last.sends[i].info.live = (stream.status = "live")
         /\ last.sends[i].info.resolution = stream.resolution

\* C17 witness: a second viewer was admitted on the lowest channel while the
\* stream was live; its snapshot says live with two viewers
C17_Witness ==
  /\ last.op = "connection" /\ last.res = "ok"
  /\ stream.status = "live"
  /\ Cardinality(DOMAIN viewers) = 2
  /\ \E c \in Channels : c > last.arg /\ IsOpen(clients, c)
  /\ last.sends[Len(last.sends)].to = last.arg
  /\ last.sends[Len(last.sends)].info.live
  /\ last.sends[Len(last.sends)].info.viewerCount = 2

\* the last handler changed the shared state: a startStream that succeeded, a
\* stopStream of a live stream, an updateStreamMetadata that changed a field,
\* an addViewer that admitted, a removeViewer that removed
StateChanged ==
  \/ last.op = "startStream" /\ last.res = "ok"
  \/ last.op = "stopStream" /\ last.before.status = "live"
  \/ last.op = "updateStreamMetadata" /\ stream # last.before
  \/ last.op = "connection" /\ last.res = "ok"
  \/ last.op = "close" /\ viewers # last.vbefore

\* the messages the last handler's notifications caused: all it sent, but
\* for the sendStatus message that ends an admitting connection handler
Broadcasted ==
  IF last.op = "connection" /\ last.res = "ok"
  THEN SubSeq(last.sends, 1, Len(last.sends) - 1)
  ELSE last.sends

\* channels that are admitted (hold a session) and open
AdmittedOpen == {c \in Channels : IsOpen(clients, c) /\ clients[c].sid # NoId}

\* C18: every handler that changed the stream or the registry emitted
\* exactly one notification, and that notification sent exactly one status
\* message to each channel that is admitted and open, and none to any other.
C18_OneNotificationOneBroadcast ==
  StateChanged =>
    /\ Len(last.emits) = 1
    /\ last.emits[1].event
         = (IF last.op \in {"connection", "close"} THEN "viewerChange"
            ELSE "streamChange")
    /\ \A c \in Channels :
         Cardinality({i \in 1 .. Len(Broadcasted) :
                        Broadcasted[i].to = c /\ Broadcasted[i].type = "status"})
           = (IF c \in AdmittedOpen THEN 1 ELSE 0)
    /\ Len(Broadcasted) = Cardinality(AdmittedOpen)

\* C18 witness: the stream started while one admitted channel was open,
\* another admitted one was being terminated and a third was absent; only
\* the open one was sent the status
C18_Witness ==
  /\ last.op = "startStream" /\ last.res = "ok"
  /\ Cardinality(AdmittedOpen) = 1
  /\ \E c \in Channels :
       clients[c].readyState = "CLOSING" /\ clients[c].sid # NoId
  /\ Len(last.sends) = 1

\* the live flag, viewer count, resolution and bitrate of a snapshot
Payload(info) ==
  <<info.live, info.viewerCount, info.resolution, info.bitrate>>

\* C19: every message broadcast by a handler that changed the state carries
\* the state after the change: its live flag, viewerCount, resolution and
\* bitrate are what the stream and the registry hold once the handler is
\* done, and so differ from what a snapshot taken before the change held.
C19_BroadcastCarriesPostState ==
  StateChanged =>
    \A i \in 1 .. Len(Broadcasted) :
      /\ Broadcasted[i].info.live = (stream.status = "live")
      /\ Broadcasted[i].info.viewerCount = Cardinality(DOMAIN viewers)
      /\ Broadcasted[i].info.resolution = stream.resolution
      /\ Broadcasted[i].info.bitrate = stream.bitrate
      /\ Payload(Broadcasted[i].info)
           # Payload(GetStreamInfo(last.before, last.vbefore, now))

\* C19 witness: one of two viewers left while the stream was live; the
\* remaining channel was told viewerCount 1, not the stale 2
C19_Witness ==
  /\ last.op = "close" /\ Cardinality(DOMAIN last.vbefore) = 2
  /\ stream.status = "live"
  /\ Len(last.sends) = 1
  /\ last.sends[1].info.viewerCount = 1 /\ last.sends[1].info.live

\* the heartbeat tick of this step called terminate() on the open channel c
ForceClosed(c) ==
  /\ last'.op = "heartbeat"
  /\ clients[c].readyState = "OPEN" /\ clients'[c].readyState = "CLOSING"

\* C20 (as amended): the heartbeat force-closes a channel only at a tick at
\* which the channel still has the probe of the previous tick unanswered,
\* that is after one full heartbeat interval without a liveness response,
\* never at the first tick after its connection or after a pong; a channel
\* that has answered every probe sent to it is left open by the tick.
C20_ForceCloseAfterUnansweredProbe ==
  /\ [][\A c \in Channels :
          ForceClosed(c) =>
            /\ clients[c].isAlive = "false" /\ clients[c].probe
            /\ clients[c].ticks = 1]_vars
  /\ [][\A c \in Channels :
          (/\ last'.op = "heartbeat"
           /\ clients[c].readyState = "OPEN" /\ clients[c].sid # NoId
           /\ ~clients[c].probe)
            => /\ clients'[c].readyState = "OPEN"
               /\ clients'[c].probe]_vars

\* C20 witness: one tick force-closed a channel that left the probe of the
\* previous tick unanswered and probed again a channel that had answered it
C20_Witness ==
  /\ last.op = "heartbeat"
  /\ \E c, d \in Channels :
       /\ clients[c].sid # NoId /\ clients[c].readyState = "CLOSING"
       /\ clients[c].ticks = 2
       /\ clients[d].sid # NoId /\ clients[d].readyState = "OPEN"
       /\ clients[d].ticks = 1 /\ clients[d].probe

\* C20 as stated: when the heartbeat force-closes a channel, two full
\* heartbeat intervals have passed without a liveness response from it, so
\* two ticks or more had visited it since its last sign of life
C20_Original ==
  [][\A c \in Channels : ForceClosed(c) => clients[c].ticks >= 2]_vars

\* channel c just answered a probe
Answered(c) == last.op = "pong" /\ last.arg = c

\* C21: an admitted open channel that answers no probe any more is closed
\* in the end (it answers again or its socket is gone); the 'close' of a
\* socket that held a session removes that session from the registry and
\* sends the viewer count, one less than before, to exactly the channels
\* that are still open.  The handlers tell channels apart by identity only,
\* so the first part follows channel 1 while every channel comes, answers,
\* falls silent and goes around it.
C21_HalfOpenChannelIsClosedAndRemoved ==
  /\ (1 \in AdmittedOpen) ~> (clients[1].readyState = "NONE" \/ Answered(1))
  /\ [][\A c \in Channels :
          (last'.op = "close" /\ last'.arg = c /\ clients[c].sid # NoId) =>
            /\ clients[c].sid \in DOMAIN viewers
            /\ DOMAIN viewers' = DOMAIN viewers \ {clients[c].sid}
            /\ {last'.sends[i].to : i \in 1 .. Len(last'.sends)}
                 = {d \in Channels : IsOpen(clients', d)}
            /\ Len(last'.sends) = Cardinality({d \in Channels : IsOpen(clients', d)})
            /\ \A i \in 1 .. Len(last'.sends) :
                 /\ last'.sends[i].type = "status"
                 /\ last'.sends[i].info.viewerCount
                      = Cardinality(DOMAIN viewers) - 1]_vars

\* C21 witness: a socket the heartbeat had terminated emitted 'close', its
\* session left the registry of two, and the other viewer was told count 1
C21_Witness ==
  /\ last.op = "close" /\ last.path = <<"CLOSING">>
  /\ Cardinality(DOMAIN last.vbefore) = 2 /\ Cardinality(DOMAIN viewers) = 1
  /\ Len(last.sends) = 1 /\ last.sends[1].info.viewerCount = 1
  /\ clients[last.sends[1].to].sid \in DOMAIN viewers

\* C22: removeViewer of an id the registry does not hold changes neither the
\* registry nor the stream and emits nothing; removeViewer of a held id
\* deletes it and emits once; so two removals of the same id in a row emit
\* one notification when the id was held and none when it was not.
C22_RemoveUnknownViewerIsNoOp ==
  /\ [][last'.op = "removeViewer" =>
          IF last'.arg \in DOMAIN viewers
          THEN /\ DOMAIN viewers' = DOMAIN viewers \ {last'.arg}
               /\ Len(last'.emits) = 1
          ELSE /\ viewers' = viewers /\ stream' = stream
               /\ last'.emits = <<>>]_vars
  /\ [][(last.op = "removeViewer" /\ last'.op = "removeViewer"
          /\ last'.arg = last.arg) =>
          /\ last'.emits = <<>> /\ viewers' = viewers
          /\ Len(last.emits) + Len(last'.emits)
               = (IF last.arg \in DOMAIN last.vbefore THEN 1 ELSE 0)]_vars

\* C22 witness: a held session was removed and notified, and the call after
\* it named an id the registry did not hold (that one again, or one never
\* admitted): it emitted nothing and left the other session in the registry
C22_Witness ==
  /\ last.op = "removeViewer" /\ last.arg \notin DOMAIN last.vbefore
  /\ prev.op = "removeViewer" /\ prev.nemits = 1
  /\ last.emits = <<>> /\ viewers = last.vbefore
  /\ Cardinality(DOMAIN viewers) = 1

\* the invocations a notification owes: one per listener of its event, in
\* the order of registration, each with the notification's data
RECURSIVE Owed(_)
Owed(emits) ==
  IF emits = <<>> THEN <<>>
  ELSE LET ls == listeners[Head(emits).event]
       IN [i \in 1 .. Len(ls) |-> Invocation(ls[i], Head(emits).info)]
            \o Owed(Tail(emits))

\* the last call was one of the methods that mutate and notify
Mutated == last.op \in {"startStream", "stopStream", "addViewer", "removeViewer"}

\* C23: whatever the listeners of an event do, a notification invokes every
\* one of them, also those registered after one that throws; the method
\* throws only when it would throw without listeners (startStream while
\* live), and the state it assigned is the state that stays.
C23_ListenerFailureIsIsolated ==
  Mutated =>
    /\ last.sends = Owed(last.emits)
    /\ last.res = "throw" =>
         last.op = "startStream" /\ last.before.status = "live"
    /\ \A i \in 1 .. Len(last.emits) :
         last.emits[i].info = GetStreamInfo(stream, viewers, now)
    /\ (last.op = "startStream" /\ last.res # "throw") => stream.status = "live"
    /\ (last.op = "addViewer" /\ last.res = "ok") => last.sid \in DOMAIN viewers

\* C23 witness: startStream notified three listeners of which the second
\* threw; the third was called all the same, the call returned, the stream
\* is live
C23_Witness ==
  /\ last.op = "startStream" /\ last.res = "ok"
  /\ listeners["streamChange"]
       = <<"normalCallback", "errorCallback", "normalCallback">>
  /\ Len(last.sends) = 3 /\ last.sends[3].callback = "normalCallback"
  /\ stream.status = "live"

\* C24: when the directory creation inside startTranscoder fails, the call
\* throws, nothing is spawned and no process is held afterwards
\* (isTranscoderRunning() is false); the exception leaves the postPublish
\* handler that made the call, so the handler stops there and sets no timer.
C24_MkdirFailurePropagates ==
  [][(last'.op = "postPublish" /\ last'.fx.mkdir = "failed") =>
       /\ last'.fx.start = "throw"
       /\ last'.fx.spawned = NoProc /\ last'.fx.signals = <<>>
       /\ ffmpegProcess = NoProc /\ ffmpegProcess' = NoProc
       /\ procs' = procs
       /\ ~IsTranscoderRunning([ffmpegProcess |-> ffmpegProcess'])
       /\ ~sessions'[last'.arg].refresh]_vars

\* C24 witness: a publish was confirmed, the directories could not be
\* created, startTranscoder threw and no process is held
C24_Witness ==
  /\ last.op = "postPublish" /\ last.fx.mkdir = "failed"
  /\ last.fx.start = "throw"
  /\ ffmpegProcess = NoProc /\ \A q \in Procs : procs[q] = NoProcess

\* C25: once a postPublish whose startTranscoder failed on the output
\* directories has been handled, the stream is not live.
C25_FailedStartLeavesStreamOffline ==
  (last.op = "postPublish" /\ last.fx.mkdir = "failed") =>
    stream.status # "live"

\* C26: once a donePublish has been handled the stream is offline with every
\* live-only field cleared, and a transcode process that was held is being
\* stopped: it is still the held one, the stopping flag is set, and SIGTERM
\* was sent to it, by this handler unless a stop was already under way.
C26_DonePublishStopsStreamAndTranscoder ==
  [][last'.op = "donePublish" =>
       /\ stream' = OfflineStream
       /\ ffmpegProcess # NoProc =>
            /\ ffmpegProcess' = ffmpegProcess
            /\ isStoppingTranscoder'
            /\ procs'[ffmpegProcess].stopReg
            /\ ~isStoppingTranscoder => procs'[ffmpegProcess].timer
            /\ last'.fx.signals
                 = (IF isStoppingTranscoder THEN <<>>
                    ELSE <<(<<ffmpegProcess, "SIGTERM">>)>>)]_vars

\* C26 witness: the publisher of a live stream with a running transcoder
\* left; the stream is offline and the process was sent SIGTERM
C26_Witness ==
  /\ last.op = "donePublish" /\ last.before.status = "live"
  /\ stream = OfflineStream
  /\ ffmpegProcess # NoProc /\ isStoppingTranscoder
  /\ last.fx.signals = <<(<<ffmpegProcess, "SIGTERM">>)>>

C28_NoReconnectAfterRoomFull ==
  [][client.rejected =>
       /\ client'.ws = "CONNECTING" => client.ws = "CONNECTING"
       /\ client'.reconnectTimer => client.reconnectTimer]_vars

\* the signals the last handler sent
Signalled == {last.fx.signals[i] : i \in 1 .. Len(last.fx.signals)}

\* C29: a killTimeout is pending only on the process stopTranscoder was
\* called on, while that process runs and is the one held; the 'close' of
\* that process leaves no timer behind; and SIGKILL is sent only by the
\* timer's callback, to the process the timer was armed on, which had not
\* exited and was being stopped.
C29_GraceTimerDiesWithItsProcess ==
  /\ [](\A q \in Procs :
         procs[q].timer =>
           /\ procs[q].state = "running" /\ procs[q].stopReg
           /\ ffmpegProcess = q /\ isStoppingTranscoder)
  /\ [][\A q \in Procs :
          (last'.op \in {"procClose", "procError"} /\ last'.arg = q)
            => ~procs'[q].timer]_vars
  /\ [][\A q \in Procs :
          (<<q, "SIGKILL">> \in Signalled') =>
            /\ last'.op = "killTimeout" /\ last'.arg = q
            /\ procs[q].state = "running" /\ procs[q].timer
            /\ procs[q].stopReg]_vars

\* C29 witness: a process that was being stopped exited and the stop path
\* ran: no timer is left on any process, and a session that was accepted
\* meanwhile is about to start the next one
C29_Witness ==
  /\ last.op = "procClose" /\ last.fx.cleanups = 1
  /\ last.fx.crashes = <<>>
  /\ ffmpegProcess = NoProc /\ ~isStoppingTranscoder
  /\ \A q \in Procs : procs[q] = NoProcess
  /\ \E x \in Sessions : sessions[x].phase = "accepted"

\* C30: stopTranscoder called while a stop is under way (by the streamStop
\* listener, on the donePublish of another session) sends no signal, runs no
\* cleanup, and leaves the process, its timer, its handlers, the flag and
\* the files as they were; the exit of the process being stopped then runs
\* the stop path once: one cleanup, no crash report.
C30_SecondStopIsNoOp ==
  /\ [][(last'.op = "donePublish" /\ isStoppingTranscoder) =>
          /\ last'.fx = NoFx
          /\ StopTranscoder(Tc).res = "ok"
          /\ procs' = procs /\ ffmpegProcess' = ffmpegProcess
          /\ isStoppingTranscoder' /\ hlsFiles' = hlsFiles]_vars
  /\ [][(last'.op = "procClose" /\ isStoppingTranscoder) =>
          /\ last'.fx.cleanups = 1 /\ last'.fx.crashes = <<>>
          /\ last'.fx.signals = <<>>
          /\ ~isStoppingTranscoder' /\ ffmpegProcess' = NoProc]_vars

\* C30 witness: two sessions were publishing, the first donePublish began
\* the stop, and the second came while the process had not exited yet
C30_Witness ==
  /\ last.op = "donePublish" /\ last.fx = NoFx
  /\ isStoppingTranscoder /\ ffmpegProcess # NoProc
  /\ procs[ffmpegProcess].state = "running" /\ procs[ffmpegProcess].timer
  /\ \A x \in Sessions : sessions[x].phase = "idle"

\* C31: a crash path that finds the stream offline does not call stopStream.
\* For a 'close' with a non-zero code and no stop requested while the stream
\* is offline, the stream stays as it is and nothing is emitted or sent,
\* while the files are cleaned and the crash callback gets the code. For a
\* spawn failure the 'error' handler runs first and the 'close' handler then
\* finds the stream offline: stopStream ran once if the stream was live and
\* not at all if it was offline, and both handlers cleaned and reported.
C31_CrashWhileOfflineLeavesStream ==
  [][/\ \A code \in ExitCodes \ {0} :
          (CrashedWith(code) /\ stream.status = "offline") =>
            /\ stream' = stream
            /\ last'.emits = <<>> /\ last'.sends = <<>>
            /\ last'.fx.cleanups >= 1 /\ ~hlsFiles'
            /\ last'.fx.crashes = <<code>>
     /\ (last'.op = "procError" /\ ~isStoppingTranscoder) =>
          /\ Len(last'.emits) = (IF stream.status = "live" THEN 1 ELSE 0)
          /\ stream' = (IF stream.status = "live" THEN OfflineStream
                                                  ELSE stream)
          /\ last'.fx.cleanups = 2 /\ ~hlsFiles'
          /\ last'.fx.crashes = <<-1, SpawnErrno>>]_vars

\* C31 witness: a process that could not be spawned reported 'error' while
\* the stream was live and then 'close'; the second crash path found the
\* stream offline, emitted nothing more, cleaned and called the observer
C31_Witness ==
  /\ last.op = "procError"
  /\ last.before.status = "live"
  /\ Len(last.emits) = 1
  /\ last.fx.crashes = <<-1, SpawnErrno>>
  /\ last.fx.cleanups = 2
  /\ stream = OfflineStream
  /\ ffmpegProcess = NoProc

C33_LivePublishHasTranscoder ==
  [][(/\ last'.op = "postPublish"
      /\ stream.status = "offline" /\ stream'.status = "live"
      /\ last'.fx.mkdir # "failed") =>
       /\ ffmpegProcess' # NoProc
       /\ last'.fx.spawned = ffmpegProcess']_vars

\* the stream is live and session x is not the one whose startStream made it
\* live: the stream carries the address of the session that started it, and
\* the sessions have different addresses
LiveForAnother(x) ==
  /\ stream.status = "live"
  /\ Exists(sessions[x])
  /\ stream.publisherIP # sessions[x].ip

C35_OnlyTheOwnerRefreshesMetadata ==
  [][\A x \in Sessions :
       (last'.op = "metadataRefresh" /\ last'.arg = x /\ LiveForAnother(x)) =>
         /\ stream'.resolution = stream.resolution
         /\ stream'.bitrate = stream.bitrate
         /\ last'.emits = <<>>]_vars

\* C36: the events that end one child process run the crash path at most
\* once: the crash callback is called at most once, and when no stop was
\* requested cleanupHlsFiles runs at most once, also when the process
\* reports both 'error' and 'close'.
C36_CrashPathRunsAtMostOnce ==
  [][last'.op \in {"procClose", "procError"} =>
       /\ Len(last'.fx.crashes) <= 1
       /\ ~procs[last'.arg].stopReg => last'.fx.cleanups <= 1]_vars

\* C37: isStoppingTranscoder is set only while the held process is one that
\* stopTranscoder signalled and that has not ended: in every state where no
\* process is held the flag is false. So the exit of a process for which no
\* stop was requested, with a non-zero or null code, takes the crash path.
C37_StoppingFlagOnlyDuringAStop ==
  /\ [](/\ ffmpegProcess = NoProc => ~isStoppingTranscoder
        /\ isStoppingTranscoder =>
             /\ procs[ffmpegProcess].state = "running"
             /\ procs[ffmpegProcess].stopReg)
  /\ [][\A code \in ExitCodes \ {0} :
          (/\ last'.op = "procClose" /\ last'.fx.exit = <<code>>
           /\ ~procs[last'.arg].stopReg) =>
            last'.fx.crashes = <<code>>]_vars

\* C37 witness: the process of an earlier session was signalled, the next
\* session went live meanwhile, and the 'close' of the old process has just
\* been handled by the stop path: the flag is reset with the next session
\* under way
C37_Witness ==
  /\ last.op = "procClose" /\ last.fx.exit = <<0>>
  /\ last.fx.crashes = <<>> /\ last.fx.cleanups = 1
  /\ ffmpegProcess = NoProc /\ ~isStoppingTranscoder
  /\ stream.status = "live"
  /\ \E x, y \in Sessions :
       sessions[x].phase = "idle" /\ sessions[y].phase = "publishing"

\* C38 as stated: an unrequested exit while the stream is live, whatever its
\* code, leaves the stream offline
C38_Original ==
  [][\A code \in ExitCodes :
       (CrashedWith(code) /\ stream.status = "live") =>
         stream'.status = "offline"]_vars

\* C38: when the held process exits while the stream is live and no stop was
\* requested, a non-zero or null exit code takes the stream offline; exit
\* code 0 does not: the stream stays live as it was, nothing is emitted,
\* cleaned or reported, and no process is held any more.
C38_UnrequestedExitByCode ==
  [][\A code \in ExitCodes :
       (CrashedWith(code) /\ stream.status = "live") =>
         IF code # 0
         THEN stream' = OfflineStream /\ Len(last'.emits) = 1
         ELSE /\ stream' = stream /\ stream'.status = "live"
              /\ last'.emits = <<>> /\ last'.sends = <<>>
              /\ last'.fx.crashes = <<>> /\ last'.fx.cleanups = 0
              /\ ffmpegProcess' = NoProc /\ ~isStoppingTranscoder']_vars

\* C38 witness: FFmpeg exited with code 0 while the stream was live and no
\* stop had been requested; the stream is still live and no process is held
C38_Witness ==
  /\ last.op = "procClose" /\ last.fx.exit = <<0>>
  /\ last.before.status = "live"
  /\ last.fx.cleanups = 0 /\ last.fx.crashes = <<>>
  /\ last.emits = <<>>
  /\ stream.status = "live"
  /\ ffmpegProcess = NoProc

\* the channels that were admitted and whose 'close' has not been handled
Registered == {c \in Channels : clients[c].sid # NoId}

\* C39: the registry holds exactly the sessions of the admitted channels
\* whose 'close' has not been handled yet, one session per channel, each
\* referring to its channel; getStreamInfo().viewerCount is the number of
\* those channels; a channel that is closed, or was refused, has no session.
C39_RegistryMatchesAdmittedChannels ==
  /\ DOMAIN viewers = {clients[c].sid : c \in Registered}
  /\ \A c, d \in Registered : clients[c].sid = clients[d].sid => c = d
  /\ \A c \in Registered :
       /\ viewers[clients[c].sid].websocket = c
       /\ viewers[clients[c].sid].id = clients[c].sid
       /\ clients[c].readyState \in {"OPEN", "CLOSING"}
       /\ clients[c].closeCode # PolicyViolation
  /\ GetStreamInfo(stream, viewers, now).viewerCount = Cardinality(Registered)
  /\ GetViewerCount(viewers) <= MaxViewers

\* C39 witness: two channels were admitted and a third refused; the
\* heartbeat terminated one of the two, and the 'close' of the other has
\* just been handled: one session is left, that of the terminated channel
\* whose 'close' is still to come
C39_Witness ==
  /\ last.op = "close"
  /\ Cardinality(DOMAIN last.vbefore) = 2
  /\ Cardinality(Registered) = 1
  /\ \E c \in Registered : clients[c].readyState = "CLOSING"
  /\ \E d \in Channels : clients[d].closeCode = PolicyViolation
  /\ GetViewerCount(viewers) = 1

\* C40: in the status client, from init() until the page unloads, the REST
\* fallback polling runs in every state in which the socket is not open
\* (connecting, closed, or refused with code 1008) and does not run while the
\* socket is open.
C40_PollingWheneverSocketIsNotOpen ==
  client.listening => (client.fallbackPollTimer <=> client.ws # "OPEN")

====
